---- MODULE Spec2Model ----
(***************************************************************************)
(* Verification model of the IPTV playlist tools of KimShenGod/live.       *)
(*                                                                         *)
(*   SpecProc      merged_m3u_processor.M3UProcessor.process               *)
(*   SpecAnalyzer  m3u_analyzer.main                                       *)
(*   SpecOnline    m3u_process.M3UProcessor.process (concurrent stages)    *)
(*   SpecCap       m3u_process merge_channels + sort_and_filter_channels   *)
(*                                                                         *)
(* Text is abstracted to what the code looks at.  A playlist line is a     *)
(* record whose kind says which branch of the parser the stripped line     *)
(* takes ("extinf": starts with '#EXTINF:', "url": starts with 'http://'   *)
(* or 'https://', "other": anything else) and, for a URL line, what the    *)
(* network and ffprobe answer for that URL.  The Chinese result strings of *)
(* the source are written in ASCII: "unknown" is '未知', "unreachable" is  *)
(* '不可访问', "good" is '良好', "fair" is '一般', "realtime" is '实时'.   *)
(***************************************************************************)
EXTENDS Naturals, Integers, Sequences, FiniteSets, TLC

VARIABLES
    input_file,     \* the lines of the input playlist (all_lines)
    max_threads,    \* M3UProcessor.max_threads
    pc,             \* position of the main thread
    header_lines,   \* self.header_lines: indices of input lines
    channels,       \* self.channels: sequence of Channel records
    future,         \* per channel: state of its executor task
    consumed,       \* futures already yielded by as_completed
    get_log,        \* URL lines for which the streaming GET was issued
    output_file,    \* lines written by save_result (indices of input lines)
    written,        \* TRUE once the output file has been opened for writing
    m3u_urls,       \* m3u_process: what each playlist URL parses to
    all_channels,   \* m3u_process: channels in load-completion order
    accessible,     \* m3u_process: accessible_channels
    pending,        \* m3u_process: tasks submitted and not yet completed
    channel_groups, \* m3u_process: result of merge_channels
    final_channels  \* m3u_process: result of sort_and_filter_channels

vars == <<input_file, max_threads, pc, header_lines, channels, future,
          consumed, get_log, output_file, written,
          m3u_urls, all_channels, accessible, pending, channel_groups,
          final_channels>>

procData == <<input_file, max_threads, header_lines, channels, future,
              consumed, get_log, output_file, written>>
procVars == <<input_file, max_threads, pc, header_lines, channels, future,
              consumed, get_log, output_file, written>>
onlineVars == <<m3u_urls, all_channels, accessible, pending, channel_groups,
                final_channels>>

(***************************************************************************)
(* Bounds of the model.                                                    *)
(***************************************************************************)
MaxLines == 4
MaxUrls == 2
MaxThreads == 2

(***************************************************************************)
(* Sequence helpers.                                                       *)
(***************************************************************************)
RECURSIVE SelectIdx(_, _, _)
\* the indices i of 1..n, ascending, for which keep[i] holds, from position k
SelectIdx(keep, k, n) ==
    IF k > n THEN <<>>
    ELSE IF keep[k] THEN <<k>> \o SelectIdx(keep, k + 1, n)
         ELSE SelectIdx(keep, k + 1, n)

RECURSIVE Flatten(_)
Flatten(ss) == IF ss = <<>> THEN <<>> ELSE Head(ss) \o Flatten(Tail(ss))

Range(s) == {s[i] : i \in 1..Len(s)}

(***************************************************************************)
(* Probe answers of one URL.                                               *)
(*   denied  "iptv.catvod.com" in url                                      *)
(*   head    requests.head: "ok" (status 200..399), "fail" (other status   *)
(*           or requests.RequestException), "raise" (an exception that is  *)
(*           not a RequestException)                                       *)
(*   info    the tuple get_stream_info returns                             *)
(*   get     requests.get / iter_content: "ok" or "raise"                  *)
(***************************************************************************)
InfoKnownGood == <<"1920x1080", "2000 kbps", "realtime", "good">>
InfoKnownFair == <<"1280x720", "unknown", "unknown", "fair">>
InfoUnknown   == <<"unknown", "unknown", "realtime", "good">>
StreamInfos   == {InfoKnownGood, InfoKnownFair, InfoUnknown}

NoProbe == [denied |-> FALSE, head |-> "none", info |-> InfoUnknown, get |-> "none"]

Probes ==
    {[denied |-> TRUE, head |-> "none", info |-> InfoUnknown, get |-> "none"]}
    \cup {[denied |-> FALSE, head |-> h, info |-> InfoUnknown, get |-> "none"] :
             h \in {"fail", "raise"}}
    \cup {[denied |-> FALSE, head |-> "ok", info |-> f, get |-> g] :
             f \in StreamInfos, g \in {"ok", "raise"}}

Lines ==
    {[kind |-> k, probe |-> NoProbe] : k \in {"extinf", "other"}}
    \cup {[kind |-> "url", probe |-> p] : p \in Probes}

UrlCount(lines) == Cardinality({i \in 1..Len(lines) : lines[i].kind = "url"})

Playlists ==
    {ls \in UNION {[1..n -> Lines] : n \in 0..MaxLines} : UrlCount(ls) <= MaxUrls}

(***************************************************************************)
(* Channel (merged_m3u_processor.Channel): the fields the pipeline uses.   *)
(* Lines are held as indices into all_lines.                               *)
(***************************************************************************)
DefaultQuality ==
    [resolution |-> "unknown", bitrate |-> "unknown", delay |-> "unknown",
     buffer_status |-> "unknown", download_speed |-> 0]

NewChannel(extinf) ==
    [original_lines |-> <<extinf>>, urls |-> <<>>,
     has_quality_info_list |-> FALSE, quality_info_list |-> <<>>,
     quality_info |-> DefaultQuality, valid_lines |-> <<>>]

(***************************************************************************)
(* parse_m3u_file                                                          *)
(***************************************************************************)
RECURSIVE ParseHeader(_, _)
\* first loop: the lines before the first '#EXTINF:' line
ParseHeader(lines, i) ==
    IF i > Len(lines) \/ lines[i].kind = "extinf" THEN <<>>
    ELSE <<i>> \o ParseHeader(lines, i + 1)

RECURSIVE ParseChannels(_, _, _, _)
\* second loop: chans are the channels closed so far, cur the open channel
\* (<<>> when there is none, <<c>> otherwise)
ParseChannels(lines, i, chans, cur) ==
    IF i > Len(lines) THEN chans \o cur
    ELSE IF lines[i].kind = "extinf"
         THEN ParseChannels(lines, i + 1, chans \o cur, <<NewChannel(i)>>)
    ELSE IF cur # <<>> /\ lines[i].kind = "url"
         THEN ParseChannels(lines, i + 1, chans,
                  <<[cur[1] EXCEPT !.urls = Append(@, i),
                                   !.original_lines = Append(@, i)]>>)
    ELSE IF cur # <<>>
         THEN ParseChannels(lines, i + 1, chans,
                  <<[cur[1] EXCEPT !.original_lines = Append(@, i)]>>)
    ELSE ParseChannels(lines, i + 1, chans, cur)

parse_without_header(lines) ==
    [header_lines |-> <<>>,
     channels |-> ParseChannels(lines, 1, <<>>, <<>>)]
parse_m3u_file(lines) ==
    [header_lines |-> ParseHeader(lines, 1),
     channels |-> ParseChannels(lines, 1, <<>>, <<>>)]

(***************************************************************************)
(* analyze_channel_quality: the per-URL body of the loop                   *)
(***************************************************************************)
\* check_url_accessibility: "true", "false", or "raise" when requests.head
\* raises something that is not a requests.RequestException
check_url_accessibility(p) ==
    IF p.denied THEN "false"
    ELSE IF p.head = "ok" THEN "true"
    ELSE IF p.head = "fail" THEN "false"
    ELSE "raise"

\* the entry appended for a skipped or unreachable URL
UnreachableQuality == [DefaultQuality EXCEPT !.resolution = "unreachable"]

(***************************************************************************)
(* get_stream_info as a function of what its environment answers:          *)
(*   m3u8     m3u8.load: "raise", "media" (no variant playlists),          *)
(*            "master_res" (a variant with a resolution), "master_nores"   *)
(*   path     'ffprobe -version': "ok", "missing" (FileNotFoundError),     *)
(*            "error" (timeout, non-zero exit, any other exception)        *)
(*   common   whether one of the common paths answers '-version'           *)
(*   getcwd   os.getcwd(): "ok" or "raise"                                 *)
(*   compact  the CSV invocation, verbose the JSON invocation: how is      *)
(*            "timeout", "error" (another exception of subprocess.run) or  *)
(*            "exit" with the exit status rc and the standard output out   *)
(***************************************************************************)
Raised == <<"raise">>

InfoManifest == <<"1920x1080", "unknown", "realtime", "good">>

\* lines 219-262: <<>> when neither the command name nor a common path works
FfprobePath(env) ==
    IF env.path = "ok" THEN <<"ffprobe">>
    ELSE IF env.common = "ok" THEN <<"common">>
    ELSE <<>>

\* lines 265-271: the f-string of the second logger.debug calls os.getcwd()
\* outside every try block
FfprobeNotFound(env) == IF env.getcwd = "raise" THEN Raised ELSE InfoUnknown

(***************************************************************************)
(* The text ffprobe prints.  A field is a string without surrounding       *)
(* blanks; float(), int() and str.isdigit() are tabulated on the fields    *)
(* the inputs use, numbers being held in hundredths.  In a JSON report a   *)
(* field that is missing, null, 0 or "" is written "": the code only tests *)
(* such a field for truth.                                                 *)
(***************************************************************************)
\* float(t) in hundredths as <<h>>, or <<>> for ValueError
Float(t) ==
    CASE t = "-1" -> <<-100>>
      [] t = "0" -> <<0>>
      [] t = "0.0" -> <<0>>
      [] t = "0.05" -> <<5>>
      [] t = "0.09" -> <<9>>
      [] t = "0.1" -> <<10>>
      [] t = "0.14" -> <<14>>
      [] t = "42.7" -> <<4270>>
      [] t = "3599.94" -> <<359994>>
      [] t = "3599.96" -> <<359996>>
      [] t = "3600" -> <<360000>>
      [] t = "5000" -> <<500000>>
      [] t = "30" -> <<3000>>
      [] t = "60" -> <<6000>>
      [] t = "100" -> <<10000>>
      [] t = "500" -> <<50000>>
      [] t = "576" -> <<57600>>
      [] t = "720" -> <<72000>>
      [] t = "1080" -> <<108000>>
      [] t = "1920" -> <<192000>>
      [] t = "999999" -> <<99999900>>
      [] t = "1500999.9" -> <<150099990>>
      [] t = "2000000" -> <<200000000>>
      [] OTHER -> <<>>

\* str.isdigit()
isdigit(t) ==
    t \in {"0", "30", "60", "100", "500", "576", "720", "1080", "1920",
           "3600", "5000", "999999", "2000000"}

\* int(t) of a string as <<n>>, or <<>> for ValueError
IntOf(t) == IF isdigit(t) \/ t = "-1" THEN <<Float(t)[1] \div 100>> ELSE <<>>

Digit(d) ==
    CASE d = 0 -> "0" [] d = 1 -> "1" [] d = 2 -> "2" [] d = 3 -> "3"
      [] d = 4 -> "4" [] d = 5 -> "5" [] d = 6 -> "6" [] d = 7 -> "7"
      [] d = 8 -> "8" [] d = 9 -> "9"

RECURSIVE Str(_)
\* str(n) of an integer
Str(n) ==
    IF n < 0 THEN "-" \o Str(0 - n)
    ELSE IF n < 10 THEN Digit(n)
    ELSE Str(n \div 10) \o Digit(n % 10)

\* f"{x:.1f}s" for x given in hundredths, x >= 0 and not halfway between two
\* tenths
OneDecimal(h) ==
    LET tenths == (h + 5) \div 10
    IN  Str(tenths \div 10) \o "." \o Digit(tenths % 10) \o "s"

DelayAlwaysDecimal(h) == OneDecimal(IF h < 0 THEN 0 ELSE h)
\* the delay string of a start time (lines 420-426 and 541-547)
DelayOf(h) ==
    IF h < 10 THEN "realtime"
    ELSE IF h < 360000 THEN OneDecimal(h)
    ELSE "unknown"

\* the delay of a start_time field: the CSV branch skips '' and 'N/A', the
\* JSON branch skips what is not true; float() rejects 'N/A' in both
StartDelay(t) ==
    IF t = "" \/ Float(t) = <<>> THEN "unknown" ELSE DelayOf(Float(t)[1])

\* the buffer status of a probe_score field (lines 429-440 and 552-564)
BufferStatus(t) ==
    IF t = "" \/ Float(t) = <<>> THEN "unknown"
    ELSE LET score == Float(t)[1] \div 100
         IN  IF score > 80 THEN "good"
             ELSE IF score > 50 THEN "fair"
             ELSE "poor"

\* f"{detected_bitrate // 1000} kbps"
Kbps(bps) == Str(bps \div 1000) \o " kbps"

(***************************************************************************)
(* The JSON report: [json, streams, format], json being "empty" (nothing   *)
(* printed), "garbled" (JSONDecodeError) or "ok"; a stream has the fields  *)
(* codec_type, width, height, bit_rate, avg_bit_rate, start_time, the      *)
(* format has bit_rate, start_time, probe_score.                           *)
(***************************************************************************)
RECURSIVE JsonScan(_, _, _)
\* the loop over streams (lines 357-372): the width and height last
\* assigned, the bitrate detected, and the stream the loop variable is left
\* at (0 for an empty list)
JsonScan(streams, i, acc) ==
    IF i > Len(streams) THEN acc
    ELSE LET st == streams[i]
             seen == [acc EXCEPT !.stream = i]
         IN  IF st.codec_type # "video" THEN JsonScan(streams, i + 1, seen)
             ELSE LET at == [seen EXCEPT !.width = st.width,
                                         !.height = st.height]
                  IN  IF st.bit_rate # ""
                      THEN [at EXCEPT !.detected_bitrate = st.bit_rate]
                      ELSE IF st.avg_bit_rate # ""
                      THEN [at EXCEPT !.detected_bitrate = st.avg_bit_rate]
                      ELSE JsonScan(streams, i + 1, at)

JsonFormatFirst(data) ==
    LET r == JsonScan(data.streams, 1,
                 [width |-> "", height |-> "", detected_bitrate |-> "",
                  stream |-> 0])
    IN  IF data.format.bit_rate # ""
        THEN [r EXCEPT !.detected_bitrate = data.format.bit_rate]
        ELSE r
\* lines 374-380: the format-level bit_rate when no stream gave one
JsonDetected(data) ==
    LET r == JsonScan(data.streams, 1,
                 [width |-> "", height |-> "", detected_bitrate |-> "",
                  stream |-> 0])
    IN  IF r.detected_bitrate = ""
        THEN [r EXCEPT !.detected_bitrate = data.format.bit_rate]
        ELSE r

\* lines 386-400: int(), then float() when int() raises ValueError
JsonBitrate(t) ==
    IF t = "" THEN "unknown"
    ELSE IF IntOf(t) # <<>> THEN Kbps(IntOf(t)[1])
    ELSE IF Float(t) # <<>> THEN Kbps(Float(t)[1] \div 100)
    ELSE "unknown"

\* lines 406-418: the start_time of the stream the loop variable is left
\* at, else that of the format
JsonDelay(data, r) ==
    IF data.streams[r.stream].start_time # ""
    THEN StartDelay(data.streams[r.stream].start_time)
    ELSE StartDelay(data.format.start_time)

\* lines 340-452: what the JSON branch returns for the output of the
\* verbose invocation
JsonParse(data) ==
    IF data.json # "ok" THEN InfoUnknown
    ELSE LET r == JsonDetected(data)
         IN  IF r.width # "" /\ r.height # ""
             THEN <<r.width \o "x" \o r.height,
                    JsonBitrate(r.detected_bitrate),
                    JsonDelay(data, r),
                    BufferStatus(data.format.probe_score)>>
             ELSE InfoUnknown

\* lines 311-452: the JSON invocation after an empty CSV output
VerboseProbe(env) ==
    IF env.verbose.how # "exit" THEN InfoUnknown
    ELSE JsonParse(env.verbose.out)

(***************************************************************************)
(* The CSV output: a sequence of lines, a line being the sequence of its   *)
(* comma-separated fields (<<"">> is a blank line, <<>> the empty output). *)
(***************************************************************************)
RECURSIVE CsvScan(_, _, _)
\* lines 467-477: the last line of at least five fields that starts with
\* two numbers, and the last line of exactly four fields
CsvScan(valid_lines, i, acc) ==
    IF i > Len(valid_lines) THEN acc
    ELSE LET parts == valid_lines[i]
         IN  CsvScan(valid_lines, i + 1,
                 IF Len(parts) >= 5
                 THEN IF isdigit(parts[1]) /\ isdigit(parts[2])
                      THEN [acc EXCEPT !.stream_parts = parts]
                      ELSE acc
                 ELSE IF Len(parts) >= 4
                 THEN [acc EXCEPT !.format_parts = parts]
                 ELSE acc)

\* lines 461-487: stream_parts and format_parts, with the first and the
\* last line as replacements
CsvParts(output) ==
    LET valid_lines == SelectSeq(output, LAMBDA l : l # <<"">>)
        r == CsvScan(valid_lines, 1, [stream_parts |-> <<>>, format_parts |-> <<>>])
        sp == IF r.stream_parts = <<>> /\ valid_lines # <<>>
              THEN valid_lines[1] ELSE r.stream_parts
        fp == IF r.format_parts = <<>> /\ Len(valid_lines) > 1
              THEN valid_lines[Len(valid_lines)] ELSE r.format_parts
    IN  [stream_parts |-> sp, format_parts |-> fp]

\* lines 506-512 and 518-524: int(float(field)) unless the field is '',
\* 'N/A' or '0'; <<>> is None
CsvField(t) ==
    IF t \notin {"", "N/A", "0"} /\ Float(t) # <<>>
    THEN <<Float(t)[1] \div 100>> ELSE <<>>

\* lines 500-529
CsvBitrate(sp, fp) ==
    LET first == IF Len(sp) >= 5 THEN CsvField(sp[5]) ELSE <<>>
        detected_bitrate == IF Len(fp) >= 3 /\ first = <<>>
                            THEN CsvField(fp[3]) ELSE first
    IN  IF detected_bitrate # <<>> THEN Kbps(detected_bitrate[1]) ELSE "unknown"

\* lines 454-569: what the CSV branch returns for a non-empty output
CsvParse(output) ==
    LET sp == CsvParts(output).stream_parts
        fp == CsvParts(output).format_parts
    IN  IF Len(sp) >= 2 /\ isdigit(sp[1]) /\ isdigit(sp[2])
        THEN <<sp[1] \o "x" \o sp[2],
               CsvBitrate(sp, fp),
               IF Len(sp) >= 3 THEN StartDelay(sp[3]) ELSE "unknown",
               IF Len(fp) >= 4 THEN BufferStatus(fp[4]) ELSE "unknown">>
        ELSE InfoUnknown

\* line 311: 'if not output' on the stripped standard output
VerboseNeeded(output) == \A i \in 1..Len(output) : output[i] = <<"">>

\* lines 292-582: the CSV invocation (check=False: the exit status is not
\* looked at) and the parsing of its output
CompactProbe(env) ==
    IF env.compact.how # "exit" THEN InfoUnknown
    ELSE IF VerboseNeeded(env.compact.out) THEN VerboseProbe(env)
    ELSE CsvParse(env.compact.out)

get_stream_info(env) ==
    IF env.m3u8 = "master_res" THEN InfoManifest
    ELSE IF env.m3u8 = "master_nores" THEN InfoUnknown
    ELSE IF FfprobePath(env) = <<>> THEN FfprobeNotFound(env)
    ELSE CompactProbe(env)

\* stream_info = self.get_stream_info(url): computed from the environment
\* where the line carries one, otherwise the tuple the line carries
StreamInfo(p) == IF "env" \in DOMAIN p THEN get_stream_info(p.env) ELSE p.info

\* the entry appended for a reachable URL: the get_stream_info tuple and the
\* download speed of the sample (left at 0 when the sample raises)
ReachableQuality(p) ==
    [resolution |-> StreamInfo(p)[1], bitrate |-> StreamInfo(p)[2],
     delay |-> StreamInfo(p)[3], buffer_status |-> StreamInfo(p)[4],
     download_speed |-> IF p.get = "ok" THEN 1 ELSE 0]

ThroughputIfKnown(p) == p.info[1] # "unknown"
\* whether the loop body reaches requests.get(url, stream=True) once the URL
\* is reachable and get_stream_info has returned
ThroughputIssued(p) == TRUE

SlotFirst(c) == 1
\* the channel object whose quality_info_list the task of channel c writes
Slot(c) == c

ExceptReraise(f) == [f EXCEPT !.state = "raised"]
\* the except clause of analyze_channel_quality: log and return []
ExceptReturn(f) == [f EXCEPT !.state = "returned", !.result = <<>>]
TaskExcept(f) == ExceptReturn(f)

NoFuture == [state |-> "none", idx |-> 0, result |-> <<>>]

Submitted == {c \in 1..Len(channels) : future[c].state # "none"}
Running == {c \in 1..Len(channels) : future[c].state = "running"}
Queued == {c \in 1..Len(channels) : future[c].state = "queued"}
Finished == {c \in 1..Len(channels) : future[c].state \in {"returned", "raised"}}

(***************************************************************************)
(* process, step 1: parse, return when there is no channel                 *)
(***************************************************************************)
Parse ==
    /\ pc = "start"
    /\ LET r == parse_m3u_file(input_file) IN
         /\ header_lines' = r.header_lines
         /\ channels' = r.channels
         /\ future' = [c \in 1..Len(r.channels) |-> NoFuture]
         /\ pc' = IF r.channels = <<>> THEN "no_channels" ELSE "parsed"
    /\ UNCHANGED <<input_file, max_threads, consumed, get_log, output_file,
                   written, onlineVars>>

(***************************************************************************)
(* analyze_all_channels                                                    *)
(***************************************************************************)
\* channels_with_sources are submitted to the executor
Submit ==
    /\ pc = "parsed"
    /\ future' = [c \in 1..Len(channels) |->
                    IF channels[c].urls # <<>>
                    THEN [NoFuture EXCEPT !.state = "queued"] ELSE NoFuture]
    /\ pc' = "analyzing"
    /\ UNCHANGED <<input_file, max_threads, header_lines, channels, consumed,
                   get_log, output_file, written, onlineVars>>

\* a free worker takes the oldest queued task; the task starts by creating
\* channel.quality_info_list = []
StartTask(c) ==
    /\ pc = "analyzing"
    /\ c \in Queued
    /\ \A d \in Queued : c <= d
    /\ Cardinality(Running) < max_threads
    /\ future' = [future EXCEPT ![c].state = "running"]
    /\ channels' = [channels EXCEPT ![Slot(c)].has_quality_info_list = TRUE,
                                    ![Slot(c)].quality_info_list = <<>>]
    /\ UNCHANGED <<input_file, max_threads, pc, header_lines, consumed,
                   get_log, output_file, written, onlineVars>>

\* one iteration of "for url in channel.urls"
AnalyzeUrl(c) ==
    /\ pc = "analyzing"
    /\ c \in Running
    /\ future[c].idx < Len(channels[c].urls)
    /\ LET u == channels[c].urls[future[c].idx + 1]
           p == input_file[u].probe
           acc == check_url_accessibility(p)
       IN  IF acc = "raise" \/ (acc = "true" /\ StreamInfo(p) = Raised)
           THEN /\ future' = [future EXCEPT ![c] = TaskExcept(@)]
                /\ UNCHANGED <<channels, get_log>>
           ELSE /\ future' = [future EXCEPT ![c].idx = @ + 1]
                /\ channels' = [channels EXCEPT ![Slot(c)].quality_info_list =
                      Append(@, IF acc = "true" THEN ReachableQuality(p)
                                ELSE UnreachableQuality)]
                /\ get_log' = IF acc = "true" /\ ThroughputIssued(p)
                              THEN get_log \cup {u} ELSE get_log
    /\ UNCHANGED <<input_file, max_threads, pc, header_lines, consumed,
                   output_file, written, onlineVars>>

\* after the loop: quality_info = quality_info_list[0], return the list
TaskReturn(c) ==
    /\ pc = "analyzing"
    /\ c \in Running
    /\ future[c].idx = Len(channels[c].urls)
    /\ LET q == channels[Slot(c)].quality_info_list IN
         /\ channels' = [channels EXCEPT ![Slot(c)].quality_info =
                            IF q # <<>> THEN q[1] ELSE @]
         /\ future' = [future EXCEPT ![c].state = "returned", ![c].result = q]
    /\ UNCHANGED <<input_file, max_threads, pc, header_lines, consumed,
                   get_log, output_file, written, onlineVars>>

\* one iteration of the as_completed loop: future.result() and the printing
\* sit in try/except Exception, so the iteration has no effect on the data
Collect(c) ==
    /\ pc = "analyzing"
    /\ c \in Finished
    /\ c \notin consumed
    /\ consumed' = consumed \cup {c}
    /\ UNCHANGED <<input_file, max_threads, pc, header_lines, channels, future,
                   get_log, output_file, written, onlineVars>>

\* as_completed is exhausted and the executor's with-block has joined
AnalyzeDone ==
    /\ pc = "analyzing"
    /\ consumed = Submitted
    /\ pc' = "analyzed"
    /\ UNCHANGED <<input_file, max_threads, header_lines, channels, future,
                   consumed, get_log, output_file, written, onlineVars>>

(***************************************************************************)
(* process, steps 3 to 5: valid_lines of every channel, then save_result   *)
(***************************************************************************)
KeepAnyResolution(q) == q.buffer_status = "good"
\* the keep predicate of one quality entry
IsValidQuality(q) ==
    q.resolution \notin {"unknown", "unreachable"} /\ q.buffer_status = "good"

\* valid_url_indices, 1-based
ValidUrlIndices(ch) ==
    IF ch.has_quality_info_list
    THEN {i \in 1..Len(ch.quality_info_list) : IsValidQuality(ch.quality_info_list[i])}
    ELSE {}

At(ol, idxs) == [k \in 1..Len(idxs) |-> ol[idxs[k]]]

BuildKeepAllUrls(ch, lines) ==
    IF ValidUrlIndices(ch) = {} THEN <<>> ELSE ch.original_lines
\* channel.valid_lines: nothing without a valid URL, otherwise every non-URL
\* line of original_lines followed by the URL lines whose index is valid
BuildValidLines(ch, lines) ==
    LET ol == ch.original_lines
        valid == ValidUrlIndices(ch)
        isurl == [k \in 1..Len(ol) |-> lines[ol[k]].kind = "url"]
        urlidx == [k \in 1..Len(ol) |-> Cardinality({j \in 1..k : isurl[j]})]
        nonurl == [k \in 1..Len(ol) |-> ~isurl[k]]
        keepurl == [k \in 1..Len(ol) |-> isurl[k] /\ urlidx[k] \in valid]
    IN  IF valid = {} THEN <<>>
        ELSE At(ol, SelectIdx(nonurl, 1, Len(ol)))
             \o At(ol, SelectIdx(keepurl, 1, Len(ol)))

save_without_header(hdr, chans) ==
    Flatten([c \in 1..Len(chans) |-> chans[c].valid_lines])
\* save_result: the header, then valid_lines of every channel
save_result(hdr, chans) ==
    hdr \o Flatten([c \in 1..Len(chans) |-> chans[c].valid_lines])

BuildAndSave ==
    /\ pc = "analyzed"
    /\ LET chans == [c \in 1..Len(channels) |->
                       [channels[c] EXCEPT !.valid_lines =
                           BuildValidLines(channels[c], input_file)]]
       IN  /\ channels' = chans
           /\ output_file' = save_result(header_lines, chans)
    /\ written' = TRUE
    /\ pc' = "done"
    /\ UNCHANGED <<input_file, max_threads, header_lines, future, consumed,
                   get_log, onlineVars>>

\* steps 3 to 5 when open(self.output_file, 'w') raises in save_result: the
\* exception leaves process() and is caught by "except Exception" in main
SaveFails ==
    /\ pc = "analyzed"
    /\ channels' = [c \in 1..Len(channels) |->
                       [channels[c] EXCEPT !.valid_lines =
                           BuildValidLines(channels[c], input_file)]]
    /\ pc' = "caught"
    /\ UNCHANGED <<input_file, max_threads, header_lines, future, consumed,
                   get_log, output_file, written, onlineVars>>

\* merged_m3u_processor.main: process() has returned (after the early return
\* without channels or after save_result), or the except clause has printed
\* the failure; main falls off its end
MainReturn ==
    /\ pc \in {"no_channels", "done", "caught"}
    /\ pc' = "exit_0"
    /\ UNCHANGED <<procData, onlineVars>>

InitProc ==
    /\ input_file \in Playlists
    /\ max_threads \in 1..MaxThreads
    /\ pc = "start"
    /\ header_lines = <<>>
    /\ channels = <<>>
    /\ future = <<>>
    /\ consumed = {}
    /\ get_log = {}
    /\ output_file = <<>>
    /\ written = FALSE
    /\ m3u_urls = <<>>
    /\ all_channels = <<>>
    /\ accessible = <<>>
    /\ pending = {}
    /\ channel_groups = <<>>
    /\ final_channels = <<>>

NextProc ==
    \/ Parse
    \/ Submit
    \/ \E c \in 1..Len(channels) : StartTask(c)
    \/ \E c \in 1..Len(channels) : AnalyzeUrl(c)
    \/ \E c \in 1..Len(channels) : TaskReturn(c)
    \/ \E c \in 1..Len(channels) : Collect(c)
    \/ AnalyzeDone
    \/ BuildAndSave
    \/ SaveFails
    \/ MainReturn

SpecProc == InitProc /\ [][NextProc]_vars

(***************************************************************************)
(* Properties of merged_m3u_processor (SpecProc)                          *)
(***************************************************************************)
Text(idxs) == [k \in 1..Len(idxs) |-> input_file[idxs[k]]]

\* the lines of s that belong to the set S, in the order of s
Restrict(s, S) ==
    At(s, SelectIdx([k \in 1..Len(s) |-> s[k] \in S], 1, Len(s)))

Occurrences(s, x) == Cardinality({k \in 1..Len(s) : s[k] = x})

AfterAnalysis == pc \in {"analyzed", "done"}

\* URL i of channel c has a quality entry
HasEntry(c, i) ==
    /\ channels[c].has_quality_info_list
    /\ i <= Len(channels[c].quality_info_list)

\* valid(u) of the keep predicate, for URL i of channel c
ValidUrl(c, i) ==
    /\ HasEntry(c, i)
    /\ channels[c].quality_info_list[i].resolution \notin {"unknown", "unreachable"}
    /\ channels[c].quality_info_list[i].buffer_status = "good"

ValidUrlLines(c) ==
    {channels[c].urls[i] : i \in {j \in 1..Len(channels[c].urls) : ValidUrl(c, j)}}

\* C1: the written file holds no URL line whose quality entry has
\* resolution unknown or unreachable, whatever the other fields are.
C1_NoUnknownResolutionInOutput ==
    pc = "done" =>
        \A k \in 1..Len(output_file) :
            \A c \in 1..Len(channels) :
                \A i \in 1..Len(channels[c].urls) :
                    (channels[c].urls[i] = output_file[k] /\ HasEntry(c, i)) =>
                        channels[c].quality_info_list[i].resolution
                            \notin {"unknown", "unreachable"}

\* a URL with unknown resolution but good buffer and a measured speed was
\* dropped while another URL of the same channel was written
C1_Witness ==
    /\ pc = "done"
    /\ \E c \in 1..Len(channels) :
          \E i, j \in 1..Len(channels[c].urls) :
              /\ HasEntry(c, i)
              /\ channels[c].quality_info_list[i].resolution = "unknown"
              /\ channels[c].quality_info_list[i].buffer_status = "good"
              /\ channels[c].quality_info_list[i].download_speed > 0
              /\ channels[c].urls[i] \notin Range(output_file)
              /\ channels[c].urls[j] \in Range(output_file)

AllUrlsValid ==
    \A c \in 1..Len(channels) : \A i \in 1..Len(channels[c].urls) : ValidUrl(c, i)

AuxBeforeUrls(ch) ==
    \A a, b \in 1..Len(ch.original_lines) :
        (a < b /\ input_file[ch.original_lines[a]].kind = "url")
            => input_file[ch.original_lines[b]].kind = "url"

RECURSIVE ExpectedList(_, _)
\* what one task computes for the URL lines us when it runs alone: entries
\* up to the first URL whose reachability check raises
ExpectedList(us, k) ==
    IF k > Len(us) THEN <<>>
    ELSE LET p == input_file[us[k]].probe
             acc == IF p.denied \/ p.head = "fail" THEN "false"
                    ELSE IF p.head = "ok" THEN "true" ELSE "raise"
         IN  IF acc = "raise" THEN <<>>
             ELSE <<IF acc = "true" THEN ReachableQuality(p) ELSE UnreachableQuality>>
                  \o ExpectedList(us, k + 1)

Raises(c) ==
    \E i \in 1..Len(channels[c].urls) :
        LET p == input_file[channels[c].urls[i]].probe
        IN  ~p.denied /\ p.head = "raise"

\* C4 as stated: after analyze_all_channels every channel with a URL has one
\* quality entry per URL, entry i belonging to urls[i], also after exceptions.
C4_OneEntryPerUrl ==
    AfterAnalysis =>
        \A c \in 1..Len(channels) :
            channels[c].urls # <<>> =>
                /\ channels[c].has_quality_info_list
                /\ Len(channels[c].quality_info_list) = Len(channels[c].urls)

\* C5: an exception inside one task never propagates and never touches the
\* task of another channel: once analyze_all_channels has returned, every
\* submitted task has returned, and every task without a failure of its own
\* has returned the complete list of its channel.
C5_FailureIsolated ==
    AfterAnalysis =>
        \A c \in 1..Len(channels) :
            channels[c].urls # <<>> =>
                /\ future[c].state = "returned"
                /\ ~Raises(c) =>
                      /\ Len(future[c].result) = Len(channels[c].urls)
                      /\ future[c].result = ExpectedList(channels[c].urls, 1)

\* one task failed, the task of another channel delivered all its entries
C5_Witness ==
    /\ pc = "analyzed"
    /\ \E c, d \in 1..Len(channels) :
          /\ c # d
          /\ Raises(c) /\ future[c].state = "returned" /\ future[c].result = <<>>
          /\ channels[d].urls # <<>> /\ ~Raises(d)
          /\ Len(future[d].result) = Len(channels[d].urls)

\* C6: the quality_info_list of every channel is the list its own task
\* computes alone, whatever max_threads is and however the tasks interleave;
\* a channel without URLs never gets a list.
C6_SameResultForAnyThreads ==
    /\ AfterAnalysis =>
          \A c \in 1..Len(channels) :
              IF channels[c].urls = <<>>
              THEN ~channels[c].has_quality_info_list
              ELSE channels[c].quality_info_list = ExpectedList(channels[c].urls, 1)
    /\ \A c \in 1..Len(channels) :
          /\ Len(channels[c].quality_info_list) <= Len(channels[c].urls)
          /\ \A i \in 1..Len(channels[c].quality_info_list) :
                channels[c].quality_info_list[i]
                    = ExpectedList(channels[c].urls, 1)[i]

\* two tasks run at the same time and each has written an entry
C6_Witness ==
    /\ max_threads > 1
    /\ Cardinality(Running) = 2
    /\ \A c \in Running : Len(channels[c].quality_info_list) = 1

\* the URL lines whose loop iteration has completed
Processed ==
    UNION {{channels[c].urls[i] : i \in 1..future[c].idx} : c \in 1..Len(future)}

Reachable(u) == ~input_file[u].probe.denied /\ input_file[u].probe.head = "ok"

\* C8 as stated: the streaming GET is issued only for a URL whose
\* introspection yielded a known resolution.
C8_SampleOnlyIfIntrospected ==
    \A u \in get_log : input_file[u].probe.info[1] # "unknown"

\* C8 amended: the streaming GET is issued for exactly the reachable URLs,
\* whatever get_stream_info returned, unknown resolution included.
C8_SampleIffReachable ==
    /\ \A u \in get_log : Reachable(u)
    /\ \A u \in Processed : Reachable(u) => u \in get_log

C8_Witness ==
    \E u \in get_log :
        /\ input_file[u].probe.info[1] = "unknown"
        /\ \E v \in Processed : ~Reachable(v)

(***************************************************************************)
(* m3u_analyzer.main (SpecAnalyzer): sequential, rewrites the input file   *)
(* in place.  consumed holds the channels the loop has gone through.       *)
(***************************************************************************)
\* get_stream_info of m3u_analyzer returns a tuple with a resolution read
\* from ffprobe, or None (the empty tuple here)
AnalyzerInfos == {InfoKnownGood, InfoKnownFair, <<>>}

AnalyzerProbes ==
    {[denied |-> FALSE, head |-> h, info |-> <<>>, get |-> "none"] :
        h \in {"fail", "raise"}}
    \cup {[denied |-> FALSE, head |-> "ok", info |-> f, get |-> "none"] :
             f \in AnalyzerInfos}

AnalyzerLines ==
    {[kind |-> k, probe |-> NoProbe] : k \in {"extinf", "other"}}
    \cup {[kind |-> "url", probe |-> p] : p \in AnalyzerProbes}

AnalyzerPlaylists ==
    {ls \in UNION {[1..n -> AnalyzerLines] : n \in 0..MaxLines} :
        UrlCount(ls) <= MaxUrls}

\* parse_m3u: the two loops of merged_m3u_processor.parse_m3u_file verbatim
parse_m3u(lines) ==
    [header_lines |-> ParseHeader(lines, 1),
     channels |-> ParseChannels(lines, 1, <<>>, <<>>)]

\* is_valid of one URL: reachable, get_stream_info returned a tuple, and its
\* resolution is neither '未知' nor ''
is_valid(p) ==
    /\ p.head = "ok"
    /\ p.info # <<>>
    /\ p.info[1] # "unknown" /\ p.info[1] # ""

AnalyzerDropInvalidChannel(ch, lines) ==
    LET ol == ch.original_lines
        keep == [k \in 1..Len(ol) |->
                    lines[ol[k]].kind # "url" \/ is_valid(lines[ol[k]].probe)]
    IN  IF ch.urls = <<>> THEN ol
        ELSE IF \A k \in 1..Len(ol) :
                    lines[ol[k]].kind = "url" => ~is_valid(lines[ol[k]].probe)
             THEN <<>>
             ELSE At(ol, SelectIdx(keep, 1, Len(ol)))
\* channel.valid_lines of the loop body: original_lines for a channel without
\* URLs, otherwise every non-URL line and every valid URL line, in place
AnalyzerValidLines(ch, lines) ==
    LET ol == ch.original_lines
        keep == [k \in 1..Len(ol) |->
                    lines[ol[k]].kind # "url" \/ is_valid(lines[ol[k]].probe)]
    IN  IF ch.urls = <<>> THEN ol
        ELSE At(ol, SelectIdx(keep, 1, Len(ol)))

\* parse, sys.exit(1) when no channel was found
AnalyzerParse ==
    /\ pc = "start"
    /\ LET r == parse_m3u(input_file) IN
         /\ header_lines' = r.header_lines
         /\ channels' = r.channels
         /\ pc' = IF r.channels = <<>> THEN "exit_1" ELSE "loop"
    /\ UNCHANGED <<input_file, max_threads, future, consumed, get_log,
                   output_file, written, onlineVars>>

\* one iteration of "for i, channel in enumerate(channels, 1)"; an exception
\* of requests.head that check_url_accessibility does not catch ends main
AnalyzerChannel(c) ==
    /\ pc = "loop"
    /\ c = Cardinality(consumed) + 1
    /\ c <= Len(channels)
    /\ IF \E i \in 1..Len(channels[c].urls) :
              input_file[channels[c].urls[i]].probe.head = "raise"
       THEN /\ pc' = "crashed"
            /\ UNCHANGED <<channels, consumed>>
       ELSE /\ channels' = [channels EXCEPT ![c].valid_lines =
                               AnalyzerValidLines(channels[c], input_file)]
            /\ consumed' = consumed \cup {c}
            /\ pc' = pc
    /\ UNCHANGED <<input_file, max_threads, header_lines, future, get_log,
                   output_file, written, onlineVars>>

\* the file is reopened for writing: header, then valid_lines of every channel
AnalyzerWrite ==
    /\ pc = "loop"
    /\ Cardinality(consumed) = Len(channels)
    /\ output_file' = header_lines
                         \o Flatten([c \in 1..Len(channels) |-> channels[c].valid_lines])
    /\ written' = TRUE
    /\ pc' = "done"
    /\ UNCHANGED <<input_file, max_threads, header_lines, channels, future,
                   consumed, get_log, onlineVars>>

InitAnalyzer ==
    /\ input_file \in AnalyzerPlaylists
    /\ max_threads = 1
    /\ pc = "start"
    /\ header_lines = <<>>
    /\ channels = <<>>
    /\ future = <<>>
    /\ consumed = {}
    /\ get_log = {}
    /\ output_file = <<>>
    /\ written = FALSE
    /\ m3u_urls = <<>>
    /\ all_channels = <<>>
    /\ accessible = <<>>
    /\ pending = {}
    /\ channel_groups = <<>>
    /\ final_channels = <<>>

NextAnalyzer ==
    \/ AnalyzerParse
    \/ \E c \in 1..Len(channels) : AnalyzerChannel(c)
    \/ AnalyzerWrite

SpecAnalyzer == InitAnalyzer /\ [][NextAnalyzer]_vars

\* the channel has a URL and none of its URLs is reachable with a resolution
NoValidUrl(c) ==
    /\ channels[c].urls # <<>>
    /\ \A i \in 1..Len(channels[c].urls) :
          LET p == input_file[channels[c].urls[i]].probe
          IN  ~(p.head = "ok" /\ p.info # <<>>)

MaxBase == 2
MaxPad == 10
MaxPlaylists == 2
MaxTotal == 2

\* the characters of the strings the tools compare, as code points.  The
\* group titles are written in ASCII: "cctv_group" is '🌐央视频道',
\* "vip_cctv" is '💓专享央视', "hk_old" is '港澳台', "hk_group" is '💓港澳台📶',
\* "other" is '其他', "sports" is '体育赛事'; "cctv" and "other_key" are the
\* literals 'cctv' and 'other' of channel_sort_key.
Codes(str) ==
    CASE str = "unknown"    -> <<117, 110, 107, 110, 111, 119, 110>>
      [] str = "1920x1080"  -> <<49, 57, 50, 48, 120, 49, 48, 56, 48>>
      [] str = "720x576"    -> <<55, 50, 48, 120, 53, 55, 54>>
      [] str = ""           -> <<>>
      [] str = "Local"      -> <<76, 111, 99, 97, 108>>
      [] str = "cctv_group" -> <<127760, 22830, 35270, 39057, 36947>>
      [] str = "vip_cctv"   -> <<128147, 19987, 20139, 22830, 35270>>
      [] str = "hk_old"     -> <<28207, 28595, 21488>>
      [] str = "hk_group"   -> <<128147, 28207, 28595, 21488, 128246>>
      [] str = "other"      -> <<20854, 20182>>
      [] str = "sports"     -> <<20307, 32946, 36187, 20107>>
      [] str = "cctv"       -> <<99, 99, 116, 118>>
      [] str = "other_key"  -> <<111, 116, 104, 101, 114>>

RECURSIVE LexLess(_, _)
\* Python's < on two strings
LexLess(a, b) ==
    IF b = <<>> THEN FALSE
    ELSE IF a = <<>> THEN TRUE
    ELSE IF Head(a) # Head(b) THEN Head(a) < Head(b)
    ELSE LexLess(Tail(a), Tail(b))

\* channel.get('tvg-name') or channel.get('name', '')
channel_name(ch) == IF ch.tvg_name # "" THEN ch.tvg_name ELSE ch.name

sort_key_zero_when_slow(ch) ==
    <<ch.resolution, IF ch.download_time > 10 THEN 0 ELSE 0 - ch.download_time>>
\* sort_key: (resolution, -download_time if download_time > 10 else 0)
sort_key(ch) ==
    <<ch.resolution, IF ch.download_time > 10 THEN 0 - ch.download_time ELSE 0>>

\* Python's < on two sort keys
KeyLess(k1, k2) ==
    \/ LexLess(Codes(k1[1]), Codes(k2[1]))
    \/ k1[1] = k2[1] /\ k1[2] < k2[2]

RECURSIVE InsertDesc(_, _)
\* x goes behind every element whose key is not smaller than its own
InsertDesc(x, sorted) ==
    IF sorted = <<>> THEN <<x>>
    ELSE IF KeyLess(sort_key(Head(sorted)), sort_key(x))
         THEN <<x>> \o sorted
         ELSE <<Head(sorted)>> \o InsertDesc(x, Tail(sorted))

RECURSIVE SortedDesc(_, _)
\* sorted(channel_list, key=sort_key, reverse=True): stable, descending
SortedDesc(list, k) ==
    IF k = 0 THEN <<>> ELSE InsertDesc(list[k], SortedDesc(list, k - 1))

KeepSix(sorted_list) ==
    SubSeq(sorted_list, 1, IF Len(sorted_list) < 6 THEN Len(sorted_list) ELSE 6)
\* sorted_list[:10]
Keep(sorted_list) ==
    SubSeq(sorted_list, 1, IF Len(sorted_list) < 10 THEN Len(sorted_list) ELSE 10)

RECURSIVE AddToGroup(_, _)
\* channel_groups[channel_name].append(channel) on an insertion-ordered dict
AddToGroup(groups, ch) ==
    IF groups = <<>> THEN <<[name |-> channel_name(ch), list |-> <<ch>>]>>
    ELSE IF Head(groups).name = channel_name(ch)
         THEN <<[Head(groups) EXCEPT !.list = Append(@, ch)]>> \o Tail(groups)
         ELSE <<Head(groups)>> \o AddToGroup(Tail(groups), ch)

RECURSIVE merge_channels(_, _)
\* the groups after the first k channels; a channel without a name is skipped
merge_channels(chs, k) ==
    IF k = 0 THEN <<>>
    ELSE IF channel_name(chs[k]) # ""
         THEN AddToGroup(merge_channels(chs, k - 1), chs[k])
         ELSE merge_channels(chs, k - 1)

sort_and_filter_channels(groups) ==
    Flatten([g \in 1..Len(groups) |->
                Keep(SortedDesc(groups[g].list, Len(groups[g].list)))])

\* process: channel_groups = self.merge_channels(channels)
Merge ==
    /\ pc = "detected"
    /\ channel_groups' = merge_channels(accessible, Len(accessible))
    /\ pc' = "merged"
    /\ UNCHANGED <<procData, m3u_urls, all_channels, accessible, pending,
                   final_channels>>

\* process: final_channels = self.sort_and_filter_channels(channel_groups)
SortFilter ==
    /\ pc = "merged"
    /\ final_channels' = sort_and_filter_channels(channel_groups)
    /\ pc' = "done"
    /\ UNCHANGED <<procData, m3u_urls, all_channels, accessible, pending,
                   channel_groups>>

(***************************************************************************)
(* SpecCap: merge_channels and sort_and_filter_channels applied to a list  *)
(* of accessible channels: a short list of arbitrary channels with a run   *)
(* of up to MaxPad equal channels of one name before or behind it.         *)
(***************************************************************************)
CapChannels ==
    {[tvg_name |-> id[1], name |-> id[2], url |-> 0, resolution |-> r,
      download_time |-> t] :
        id \in {<<"A", "B">>, <<"", "B">>, <<"", "">>},
        r \in {"unknown", "1920x1080", "720x576"},
        t \in {5, 12}}

PadChannels ==
    {[tvg_name |-> "", name |-> "A", url |-> 0, resolution |-> "1920x1080",
      download_time |-> 15],
     [tvg_name |-> "A", name |-> "", url |-> 0, resolution |-> "unknown",
      download_time |-> 5]}

\* every channel of a list has its own URL
Numbered(list) == [i \in 1..Len(list) |-> [list[i] EXCEPT !.url = i]]

CapInputs ==
    {Numbered(IF front THEN [i \in 1..n |-> pad] \o base
              ELSE base \o [i \in 1..n |-> pad]) :
        base \in UNION {[1..m -> CapChannels] : m \in 0..MaxBase},
        pad \in PadChannels, n \in 0..MaxPad, front \in BOOLEAN}

InitCap ==
    /\ input_file = <<>>
    /\ max_threads = 1
    /\ pc = "detected"
    /\ header_lines = <<>>
    /\ channels = <<>>
    /\ future = <<>>
    /\ consumed = {}
    /\ get_log = {}
    /\ output_file = <<>>
    /\ written = FALSE
    /\ m3u_urls = <<>>
    /\ all_channels = <<>>
    /\ accessible \in CapInputs
    /\ pending = {}
    /\ channel_groups = <<>>
    /\ final_channels = <<>>

NextCap == Merge \/ SortFilter

SpecCap == InitCap /\ [][NextCap]_vars

\* the channels of seq whose identity key is k, in the order of seq
WithName(seq, k) ==
    At(seq, SelectIdx([i \in 1..Len(seq) |-> channel_name(seq[i]) = k], 1, Len(seq)))

PosIn(seq, x) == CHOOSE i \in 1..Len(seq) : seq[i] = x

\* a ranks before b: larger sort key, or equal sort key and earlier in the input
RanksBefore(a, b) ==
    \/ KeyLess(sort_key(b), sort_key(a))
    \/ /\ ~KeyLess(sort_key(a), sort_key(b))
       /\ PosIn(accessible, a) < PosIn(accessible, b)

GroupNames == {channel_name(accessible[i]) : i \in 1..Len(accessible)} \ {""}

Inf == 999999

DetectResults ==
    {[accessible |-> FALSE, resolution |-> "unknown", download_time |-> Inf],
     [accessible |-> TRUE, resolution |-> "unknown", download_time |-> 5],
     [accessible |-> TRUE, resolution |-> "1920x1080", download_time |-> 12]}

LoadedChannels ==
    {[tvg_name |-> "", name |-> n, url |-> 0, detect |-> d] :
        n \in {"A", "B"}, d \in DetectResults}

\* the URL of channel i of playlist p
UrlOf(p, i) == p * (MaxTotal + 1) + i

PlaylistSets ==
    {[p \in 1..Len(pls) |->
        [i \in 1..Len(pls[p]) |-> [pls[p][i] EXCEPT !.url = UrlOf(p, i)]]] :
        pls \in UNION {[1..np -> UNION {[1..m -> LoadedChannels] : m \in 0..MaxTotal}] :
                          np \in 0..MaxPlaylists}}

TotalChannels(pls) == Len(Flatten(pls))

\* channel.update(stream_info)
Updated(ch) ==
    [tvg_name |-> ch.tvg_name, name |-> ch.name, url |-> ch.url,
     resolution |-> ch.detect.resolution,
     download_time |-> ch.detect.download_time]

\* task k of a pool has started: fewer than max_workers older tasks remain
Started(k) == Cardinality({j \in pending : j < k}) < max_threads

\* process_channels: the load tasks are submitted
SubmitLoads ==
    /\ pc = "start"
    /\ pending' = 1..Len(m3u_urls)
    /\ pc' = "loading"
    /\ UNCHANGED <<procData, m3u_urls, all_channels, accessible,
                   channel_groups, final_channels>>

\* as_completed yields the load task of playlist p: all_channels.extend
ExtendOnCompletion(p) == all_channels \o m3u_urls[p]

LoadDone(p) ==
    /\ pc = "loading"
    /\ p \in pending
    /\ Started(p)
    /\ all_channels' = ExtendOnCompletion(p)
    /\ pending' = pending \ {p}
    /\ UNCHANGED <<procData, pc, m3u_urls, accessible, channel_groups,
                   final_channels>>

\* the first pool has joined; the detect tasks are submitted
SubmitDetects ==
    /\ pc = "loading"
    /\ pending = {}
    /\ pending' = 1..Len(all_channels)
    /\ pc' = "detecting"
    /\ UNCHANGED <<procData, m3u_urls, all_channels, accessible,
                   channel_groups, final_channels>>

\* as_completed yields the detect task of channel k
DetectDone(k) ==
    /\ pc = "detecting"
    /\ k \in pending
    /\ Started(k)
    /\ accessible' = IF all_channels[k].detect.accessible
                     THEN Append(accessible, Updated(all_channels[k]))
                     ELSE accessible
    /\ pending' = pending \ {k}
    /\ UNCHANGED <<procData, pc, m3u_urls, all_channels, channel_groups,
                   final_channels>>

\* process_channels returns accessible_channels
ProcessChannelsReturn ==
    /\ pc = "detecting"
    /\ pending = {}
    /\ pc' = "detected"
    /\ UNCHANGED <<procData, m3u_urls, all_channels, accessible, pending,
                   channel_groups, final_channels>>

InitOnline ==
    /\ input_file = <<>>
    /\ max_threads \in 1..MaxThreads
    /\ pc = "start"
    /\ header_lines = <<>>
    /\ channels = <<>>
    /\ future = <<>>
    /\ consumed = {}
    /\ get_log = {}
    /\ output_file = <<>>
    /\ written = FALSE
    /\ m3u_urls \in {pls \in PlaylistSets : TotalChannels(pls) <= MaxTotal}
    /\ all_channels = <<>>
    /\ accessible = <<>>
    /\ pending = {}
    /\ channel_groups = <<>>
    /\ final_channels = <<>>

NextOnline ==
    \/ SubmitLoads
    \/ \E p \in 1..Len(m3u_urls) : LoadDone(p)
    \/ SubmitDetects
    \/ \E k \in 1..Len(all_channels) : DetectDone(k)
    \/ ProcessChannelsReturn
    \/ Merge
    \/ SortFilter

SpecOnline == InitOnline /\ [][NextOnline]_vars

\* the accessible channels in the order of m3u_urls and of each playlist
InSubmissionOrder ==
    LET all == Flatten(m3u_urls)
        acc == SelectIdx([i \in 1..Len(all) |-> all[i].detect.accessible], 1, Len(all))
    IN  [i \in 1..Len(acc) |-> Updated(all[acc[i]])]

\* C7 as stated: the emitted channel list is the same for every order in
\* which the load tasks and the detect_stream_info tasks complete.
C7_OrderIndependent ==
    pc = "done" =>
        final_channels = sort_and_filter_channels(
                            merge_channels(InSubmissionOrder, Len(InSubmissionOrder)))

(***************************************************************************)
(* SpecSort: sort_m3u.main and M3UProcessor.process.                       *)
(*                                                                         *)
(* input_file holds the channel dicts the parse loop appends, in file      *)
(* order.  A channel dict is a record: name, group_title, url, answer      *)
(* (the dict analyze_channel_quality returns for its URL) and quality      *)
(* (<<>> while the dict has no quality keys, <<answer>> after update).     *)
(***************************************************************************)
RECURSIVE InsertByTitle(_, _)
\* x goes behind every element whose group_title is not larger than its own
InsertByTitle(x, sorted) ==
    IF sorted = <<>> THEN <<x>>
    ELSE IF LexLess(Codes(x.group_title), Codes(Head(sorted).group_title))
         THEN <<x>> \o sorted
         ELSE <<Head(sorted)>> \o InsertByTitle(x, Tail(sorted))

RECURSIVE SortedByTitle(_, _)
\* channels.sort(key=lambda x: x.get('group_title', '')): stable, ascending
SortedByTitle(list, k) ==
    IF k = 0 THEN <<>> ELSE InsertByTitle(list[k], SortedByTitle(list, k - 1))

\* _parse_resolution: '未知' and strings without WxH give (0, 0)
parse_resolution(resolution_str) ==
    CASE resolution_str = "unknown"   -> <<0, 0>>
      [] resolution_str = "1920x1080" -> <<1920, 1080>>
      [] resolution_str = "720x576"   -> <<720, 576>>

\* the sort key of sort_and_filter_channels
quality_key(x) ==
    <<parse_resolution(x.quality[1].resolution), x.quality[1].download_speed>>

\* Python's < on two such keys
QualityKeyLess(k1, k2) ==
    \/ k1[1][1] < k2[1][1]
    \/ k1[1][1] = k2[1][1] /\ k1[1][2] < k2[1][2]
    \/ k1[1] = k2[1] /\ k1[2] < k2[2]

RECURSIVE InsertByQuality(_, _)
InsertByQuality(x, sorted) ==
    IF sorted = <<>> THEN <<x>>
    ELSE IF QualityKeyLess(quality_key(Head(sorted)), quality_key(x))
         THEN <<x>> \o sorted
         ELSE <<Head(sorted)>> \o InsertByQuality(x, Tail(sorted))

RECURSIVE SortedByQuality(_, _)
\* same_channels.sort(key=..., reverse=True): stable, descending
SortedByQuality(list, k) ==
    IF k = 0 THEN <<>> ELSE InsertByQuality(list[k], SortedByQuality(list, k - 1))

\* same_channels[:6]
FirstSix(same_channels) ==
    SubSeq(same_channels, 1,
           IF Len(same_channels) < 6 THEN Len(same_channels) ELSE 6)

RECURSIVE SortedKeys(_)
\* sorted(grouped_channels.keys())
SortedKeys(S) ==
    IF S = {} THEN <<>>
    ELSE LET m == CHOOSE t \in S : \A u \in S \ {t} : LexLess(Codes(t), Codes(u))
         IN  <<m>> \o SortedKeys(S \ {m})

RECURSIVE AddByName(_, _)
\* channel_groups[channel['name']].append(channel), insertion-ordered
AddByName(groups, ch) ==
    IF groups = <<>> THEN <<<<ch>>>>
    ELSE IF Head(groups)[1].name = ch.name
         THEN <<Append(Head(groups), ch)>> \o Tail(groups)
         ELSE <<Head(groups)>> \o AddByName(Tail(groups), ch)

RECURSIVE GroupByName(_, _)
GroupByName(list, k) ==
    IF k = 0 THEN <<>> ELSE AddByName(GroupByName(list, k - 1), list[k])

\* grouped_channels[group]: the channels of one group-title, in list order
OfTitle(chs, t) ==
    At(chs, SelectIdx([i \in 1..Len(chs) |-> chs[i].group_title = t], 1, Len(chs)))

\* sort_m3u.M3UProcessor.sort_and_filter_channels
sort_filter_by_title(chs) ==
    LET titles == SortedKeys({chs[i].group_title : i \in 1..Len(chs)})
        same(t) == GroupByName(OfTitle(chs, t), Len(OfTitle(chs, t)))
    IN  Flatten([g \in 1..Len(titles) |->
            Flatten([n \in 1..Len(same(titles[g])) |->
                FirstSix(SortedByQuality(same(titles[g])[n],
                                         Len(same(titles[g])[n])))])])

\* save_result writes '#EXTM3U', then an #EXTINF line and the URL per channel
sort_save_result(chs) ==
    <<[kind |-> "extm3u"]>>
    \o Flatten([i \in 1..Len(chs) |->
          <<[kind |-> "extinf", name |-> chs[i].name,
             group_title |-> chs[i].group_title],
            [kind |-> "url", url |-> chs[i].url]>>])

MaxRecursion == 3

\* what the file is to open(): "utf-8" and "gbk" name the encoding its
\* bytes decode in (a "gbk" file does not decode as UTF-8), "neither" is a
\* file that decodes in neither of the two, "missing" no file at all
FileKinds == {"utf-8", "gbk", "neither", "missing"}

RECURSIVE parse_attempts(_, _)
\* the open() calls of parse_m3u_file(file_path) called at the given depth
\* of recursion, with their outcomes: after a GBK read that succeeds the
\* method calls itself (line 80), until the call exceeds the recursion
\* limit of the interpreter
parse_attempts(file, depth) ==
    IF file = "missing"
    THEN <<[encoding |-> "utf-8", result |-> "FileNotFoundError"]>>
    ELSE IF file = "utf-8"
    THEN <<[encoding |-> "utf-8", result |-> "ok"]>>
    ELSE <<[encoding |-> "utf-8", result |-> "UnicodeDecodeError"]>>
         \o (IF file = "neither"
             THEN <<[encoding |-> "gbk", result |-> "UnicodeDecodeError"]>>
             ELSE <<[encoding |-> "gbk", result |-> "ok"]>>
                  \o (IF depth < MaxRecursion
                      THEN parse_attempts(file, depth + 1)
                      ELSE <<>>))

\* what parse_m3u_file leaves in self.channels: the channels of the loop
\* sorted by group-title when the file decodes as UTF-8; otherwise the
\* method returns [] (from 'except Exception' at lines 84-86, which also
\* catches the RecursionError) and self.channels stays empty
parse_sort_file(file, chs) ==
    IF file = "utf-8" THEN SortedByTitle(chs, Len(chs)) ELSE <<>>

\* process step 1, parse_m3u_file: a missing file raises FileNotFoundError
\* in the first open(), which only main catches; get_log is the sequence of
\* open() calls made
SortParse ==
    /\ pc = "start"
    /\ \E file \in FileKinds :
          /\ get_log' = parse_attempts(file, 1)
          /\ IF file # "missing"
             THEN /\ channels' = parse_sort_file(file, input_file)
                  /\ pc' = "parsed"
             ELSE /\ pc' = "caught"
                  /\ UNCHANGED channels
    /\ UNCHANGED <<input_file, max_threads, header_lines, future, consumed,
                   output_file, written, onlineVars>>

\* process step 2, analyze_all_channels: channel.update(quality_info) for
\* every channel (analyze_channel_quality catches every Exception)
SortAnalyze ==
    /\ pc = "parsed"
    /\ channels' = [i \in 1..Len(channels) |->
                       [channels[i] EXCEPT !.quality = <<channels[i].answer>>]]
    /\ pc' = "analyzed"
    /\ UNCHANGED <<input_file, max_threads, header_lines, future, consumed,
                   get_log, output_file, written, onlineVars>>

\* process step 3
SortAndFilter ==
    /\ pc = "analyzed"
    /\ channels' = sort_filter_by_title(channels)
    /\ pc' = "sorted"
    /\ UNCHANGED <<input_file, max_threads, header_lines, future, consumed,
                   get_log, output_file, written, onlineVars>>

\* process step 4, save_result: open(..., 'w') may fail
SortSave ==
    /\ pc = "sorted"
    /\ \E writable \in BOOLEAN :
          IF writable
          THEN /\ output_file' = sort_save_result(channels)
               /\ written' = TRUE
               /\ pc' = "saved"
          ELSE /\ pc' = "caught"
               /\ UNCHANGED <<output_file, written>>
    /\ UNCHANGED <<input_file, max_threads, header_lines, channels, future,
                   consumed, get_log, onlineVars>>

\* sort_m3u.main: process() has returned, or "except Exception" has printed
\* the failure; main falls off its end
SortMainReturn ==
    /\ pc \in {"saved", "caught"}
    /\ pc' = "exit_0"
    /\ UNCHANGED <<procData, onlineVars>>

SortAnswers ==
    {[resolution |-> "1920x1080", download_speed |-> 5],
     [resolution |-> "720x576", download_speed |-> 9],
     [resolution |-> "unknown", download_speed |-> 0]}

SortChannels ==
    {[name |-> n, group_title |-> g, url |-> 0, answer |-> a, quality |-> <<>>] :
        n \in {"A", "B"}, g \in {"Local", "other"}, a \in SortAnswers}

SortPads ==
    {[name |-> "A", group_title |-> "other", url |-> 0, quality |-> <<>>,
      answer |-> [resolution |-> "1920x1080", download_speed |-> 5]],
     [name |-> "A", group_title |-> "Local", url |-> 0, quality |-> <<>>,
      answer |-> [resolution |-> "unknown", download_speed |-> 0]]}

\* a short list of arbitrary channels with a run of up to MaxPad equal
\* channels before or behind it; every channel has its own URL
SortInputs ==
    {Numbered(IF front THEN [i \in 1..n |-> pad] \o base
              ELSE base \o [i \in 1..n |-> pad]) :
        base \in UNION {[1..m -> SortChannels] : m \in 0..MaxBase},
        pad \in SortPads, n \in 0..MaxPad, front \in BOOLEAN}

InitSort ==
    /\ input_file \in SortInputs
    /\ max_threads = 1
    /\ pc = "start"
    /\ header_lines = <<>>
    /\ channels = <<>>
    /\ future = <<>>
    /\ consumed = {}
    /\ get_log = <<>>
    /\ output_file = <<>>
    /\ written = FALSE
    /\ m3u_urls = <<>>
    /\ all_channels = <<>>
    /\ accessible = <<>>
    /\ pending = {}
    /\ channel_groups = <<>>
    /\ final_channels = <<>>

NextSort ==
    \/ SortParse
    \/ SortAnalyze
    \/ SortAndFilter
    \/ SortSave
    \/ SortMainReturn

SpecSort == InitSort /\ [][NextSort]_vars

\* the number of entries of chs that carry the name n
EntriesNamed(chs, n) == Cardinality({i \in 1..Len(chs) : chs[i].name = n})

\* C11: after sort_and_filter_channels every channel name occurs in at most
\* 6 entries of self.channels, whatever group-titles the name occurs under.
C11_AtMostSixPerName ==
    pc = "sorted" =>
        \A i \in 1..Len(channels) : EntriesNamed(channels, channels[i].name) <= 6

(***************************************************************************)
(* SpecProcPad: merged_m3u_processor.M3UProcessor.process on playlists     *)
(* with many sources of one name: an #EXTINF line of the name "A" with up  *)
(* to MaxPad URL lines that all pass the keep predicate, then possibly a   *)
(* second entry.  Here an #EXTINF line carries the channel name the        *)
(* parser reads behind the last comma.                                     *)
(***************************************************************************)
GoodUrl ==
    [kind |-> "url",
     probe |-> [denied |-> FALSE, head |-> "ok", info |-> InfoKnownGood,
                get |-> "ok"]]

Extinf(n) == [kind |-> "extinf", probe |-> NoProbe, name |-> n]

PadTails ==
    {<<>>}
    \cup {<<Extinf(n), [kind |-> "url", probe |-> p]>> :
             n \in {"A", "B"},
             p \in {q \in Probes : q.head # "ok" \/ q.get = "ok"}}

PadPlaylists ==
    {<<Extinf("A")>> \o [i \in 1..n |-> GoodUrl] \o tail :
        n \in 0..MaxPad, tail \in PadTails}

InitProcPad ==
    /\ input_file \in PadPlaylists
    /\ max_threads \in 1..MaxThreads
    /\ pc = "start"
    /\ header_lines = <<>>
    /\ channels = <<>>
    /\ future = <<>>
    /\ consumed = {}
    /\ get_log = {}
    /\ output_file = <<>>
    /\ written = FALSE
    /\ m3u_urls = <<>>
    /\ all_channels = <<>>
    /\ accessible = <<>>
    /\ pending = {}
    /\ channel_groups = <<>>
    /\ final_channels = <<>>

SpecProcPad == InitProcPad /\ [][NextProc]_vars

\* the name of channel c: that of its #EXTINF line
NameOf(c) == input_file[channels[c].original_lines[1]].name

\* the positions of the output file that hold a source URL of the name n
SourcesWritten(n) ==
    {k \in 1..Len(output_file) :
        \E c \in 1..Len(channels) :
            /\ NameOf(c) = n
            /\ output_file[k] \in Range(channels[c].urls)}

\* C12: the file process() writes holds at most 6 source URLs per channel
\* name.
C12_AtMostSixSourcesPerName ==
    written =>
        \A c \in 1..Len(channels) : Cardinality(SourcesWritten(NameOf(c))) <= 6

(***************************************************************************)
(* SpecMerge: merge_channels.process_m3u_file.                             *)
(*                                                                         *)
(* A line of the input is a record whose kind says which branch of the     *)
(* loop it takes: "extm3u", "extinf", "url" (is_valid_url) or "other".     *)
(* An #EXTINF line carries what the regular expressions read from it:      *)
(* duration (whether '#EXTINF:<int>' is there), attrs (the key="value"     *)
(* pairs in textual order) and name (the characters behind the first       *)
(* comma, stripped).  A URL is identified by the index of its input line.  *)
(***************************************************************************)
MaxEntries == 2

RECURSIVE AttrGet(_, _, _)
\* attributes.get(key, default) on the dict parse_extinf_line fills pair by
\* pair: a later pair of the same key overwrites an earlier one
AttrGet(attrs, key, default) ==
    IF attrs = <<>> THEN default
    ELSE IF attrs[Len(attrs)][1] = key THEN attrs[Len(attrs)][2]
    ELSE AttrGet(SubSeq(attrs, 1, Len(attrs) - 1), key, default)

\* score 1, +1 for the duration, +1 for every key="value" pair
calculate_extinf_completeness(extinf_line) ==
    1 + (IF extinf_line.duration THEN 1 ELSE 0) + Len(extinf_line.attrs)

\* a channel seen for the first time
NewGroup(extinf, u) ==
    [name |-> extinf.name, extinf |-> extinf,
     completeness_score |-> calculate_extinf_completeness(extinf),
     urls |-> <<u>>, original_extinf |-> extinf,
     group_title |-> AttrGet(extinf.attrs, "group-title", "")]

\* a channel seen before: a strictly more complete #EXTINF replaces the
\* stored one together with its group-title; the URL is appended
ExistingGroup(existing, extinf, u) ==
    LET current_score == calculate_extinf_completeness(extinf)
        g == IF current_score > existing.completeness_score
             THEN [existing EXCEPT
                      !.extinf = extinf,
                      !.completeness_score = current_score,
                      !.group_title = AttrGet(extinf.attrs, "group-title", "")]
             ELSE existing
    IN  [g EXCEPT !.urls = Append(@, u)]

RECURSIVE AddSource(_, _, _)
\* channel_groups as an insertion-ordered dict keyed by channel name
AddSource(groups, extinf, u) ==
    IF groups = <<>> THEN <<NewGroup(extinf, u)>>
    ELSE IF Head(groups).name = extinf.name
         THEN <<ExistingGroup(Head(groups), extinf, u)>> \o Tail(groups)
         ELSE <<Head(groups)>> \o AddSource(Tail(groups), extinf, u)

\* "重置当前状态": current_extinf and current_channel after a URL line
AfterUrl(cur) == <<>>

RECURSIVE MergeLoop(_, _, _, _)
\* the loop over the lines from line i on; cur is <<>> when current_extinf is
\* None and <<k>> when it is input line k.  A URL line is taken when
\* current_extinf and current_channel are both non-empty
MergeLoop(lines, i, groups, cur) ==
    IF i > Len(lines) THEN groups
    ELSE IF lines[i].kind = "extm3u" THEN MergeLoop(lines, i + 1, groups, cur)
    ELSE IF lines[i].kind = "extinf" THEN MergeLoop(lines, i + 1, groups, <<i>>)
    ELSE IF lines[i].kind = "url" /\ cur # <<>> /\ lines[cur[1]].name # <<>>
         THEN MergeLoop(lines, i + 1, AddSource(groups, lines[cur[1]], i),
                        AfterUrl(cur))
    ELSE MergeLoop(lines, i + 1, groups, cur)

\* '更新时间', '体育赛事', '🏈体育赛事🏆️', '直播中国'
groups_to_delete == {"update_time", "sports", "sports_emoji", "live_china"}

keep_group_title(group_title) == group_title
\* '港澳台' -> '💓港澳台📶', '💓专享央视' -> '🌐央视频道',
\* '💓专享卫视' -> '📡卫视频道'
new_group_title(group_title) ==
    CASE group_title = "hk_old"   -> "hk_group"
      [] group_title = "vip_cctv" -> "cctv_group"
      [] group_title = "vip_sat"  -> "sat_group"
      [] OTHER -> group_title

\* re.sub(r'group-title="[^"]*"', f'group-title="{new}"', extinf_line)
updated_extinf(extinf_line, new) ==
    [extinf_line EXCEPT !.attrs =
        [k \in 1..Len(@) |->
            IF @[k][1] = "group-title" THEN <<"group-title", new>> ELSE @[k]]]

\* the body of the filtering loop for a channel that is kept
Remapped(group) ==
    IF new_group_title(group.group_title) # group.group_title
    THEN [group EXCEPT !.extinf = updated_extinf(@, new_group_title(group.group_title)),
                       !.group_title = new_group_title(group.group_title)]
    ELSE group

\* filtered_channels, insertion-ordered
filtered_channels(groups) ==
    LET kept == SelectIdx([g \in 1..Len(groups) |->
                              groups[g].group_title \notin groups_to_delete],
                          1, Len(groups))
    IN  [k \in 1..Len(kept) |-> Remapped(groups[kept[k]])]

\* the priority table: '🌐央视频道', '📡卫视频道', '💓港澳台📶', '💓台湾台📶',
\* '电影频道', 'MTV', '专项源', '定制台', '儿童专享', '其他'
group_priority ==
    [t \in {"cctv_group", "sat_group", "hk_group", "tw_group", "movie", "MTV",
            "special", "custom", "kids", "other"} |->
        CASE t = "cctv_group" -> 1 [] t = "sat_group" -> 2
          [] t = "hk_group" -> 3   [] t = "tw_group" -> 4
          [] t = "movie" -> 5      [] t = "MTV" -> 6
          [] t = "special" -> 7    [] t = "custom" -> 8
          [] t = "kids" -> 9       [] t = "other" -> 10]

GroupRankReversed(group_title) ==
    IF group_title \in DOMAIN group_priority
    THEN 11 - group_priority[group_title]
    ELSE 10
\* group_priority.get(group_title, 10)
GroupRank(group_title) ==
    IF group_title \in DOMAIN group_priority THEN group_priority[group_title]
    ELSE 10

\* the code point of a character of a channel name
CharCode(c) ==
    CASE c = "-" -> 45 [] c = "0" -> 48 [] c = "1" -> 49 [] c = "3" -> 51
      [] c = "B" -> 66 [] c = "C" -> 67 [] c = "T" -> 84 [] c = "V" -> 86
      [] c = "b" -> 98 [] c = "c" -> 99 [] c = "t" -> 116 [] c = "v" -> 118

NameCodes(name) == [k \in 1..Len(name) |-> CharCode(name[k])]

\* str.lower()
Lower(name) ==
    [k \in 1..Len(name) |->
        CASE name[k] = "B" -> "b" [] name[k] = "C" -> "c"
          [] name[k] = "T" -> "t" [] name[k] = "V" -> "v"
          [] OTHER -> name[k]]

IsDigit(c) == c \in {"0", "1", "3"}

RECURSIVE DigitsValue(_, _, _)
\* int() of the longest run of digits of s that starts at position k
DigitsValue(s, k, acc) ==
    IF k <= Len(s) /\ IsDigit(s[k])
    THEN DigitsValue(s, k + 1, 10 * acc + (CharCode(s[k]) - 48))
    ELSE acc

\* where 'cctv[-]?([0-9]+)' matches at position k of s: 0 when it does not,
\* otherwise the position of the first digit
CctvMatchAt(s, k) ==
    IF k + 3 > Len(s) \/ SubSeq(s, k, k + 3) # <<"c", "c", "t", "v">> THEN 0
    ELSE IF k + 5 <= Len(s) /\ s[k + 4] = "-" /\ IsDigit(s[k + 5]) THEN k + 5
    ELSE IF k + 4 <= Len(s) /\ IsDigit(s[k + 4]) THEN k + 4
    ELSE 0

\* re.search(r'cctv[-]?([0-9]+)', s): <<>> without a match, otherwise
\* <<int(group(1))>> of the leftmost match
CctvSearch(s) ==
    LET at == {k \in 1..Len(s) : CctvMatchAt(s, k) # 0}
    IN  IF at = {} THEN <<>>
        ELSE LET k == CHOOSE k \in at : \A j \in at : k <= j
             IN  <<DigitsValue(s, CctvMatchAt(s, k), 0)>>

StartsWithCctv(s) == Len(s) >= 4 /\ SubSeq(s, 1, 4) = <<"c", "c", "t", "v">>

name_sort_key(group) ==
    <<GroupRank(group.group_title), group.group_title, "other_key", 0, group.name>>
\* channel_sort_key: (group_rank, group_title, 'cctv', cctv_num, channel_name)
\* or (group_rank, group_title, 'other', channel_name); the fourth component
\* is 0 when the key has none
channel_sort_key(group) ==
    IF StartsWithCctv(Lower(group.name)) /\ CctvSearch(Lower(group.name)) # <<>>
    THEN <<GroupRank(group.group_title), group.group_title, "cctv",
           CctvSearch(Lower(group.name))[1], group.name>>
    ELSE <<GroupRank(group.group_title), group.group_title, "other_key", 0,
           group.name>>

StrLess(a, b) == LexLess(Codes(a), Codes(b))

TupleLessNoTitle(k1, k2) ==
    \/ k1[1] < k2[1]
    \/ /\ k1[1] = k2[1]
       /\ \/ StrLess(k1[3], k2[3])
          \/ /\ k1[3] = k2[3]
             /\ \/ k1[3] = "cctv" /\ k1[4] < k2[4]
                \/ /\ k1[3] = "cctv" => k1[4] = k2[4]
                   /\ LexLess(NameCodes(k1[5]), NameCodes(k2[5]))
\* Python's < on two keys of channel_sort_key
TupleLess(k1, k2) ==
    \/ k1[1] < k2[1]
    \/ /\ k1[1] = k2[1]
       /\ \/ StrLess(k1[2], k2[2])
          \/ /\ k1[2] = k2[2]
             /\ \/ StrLess(k1[3], k2[3])
                \/ /\ k1[3] = k2[3]
                   /\ \/ k1[3] = "cctv" /\ k1[4] < k2[4]
                      \/ /\ k1[3] = "cctv" => k1[4] = k2[4]
                         /\ LexLess(NameCodes(k1[5]), NameCodes(k2[5]))

RECURSIVE InsertByKey(_, _)
\* x goes behind every element whose key is not larger than its own
InsertByKey(x, sorted) ==
    IF sorted = <<>> THEN <<x>>
    ELSE IF TupleLess(channel_sort_key(x), channel_sort_key(Head(sorted)))
         THEN <<x>> \o sorted
         ELSE <<Head(sorted)>> \o InsertByKey(x, Tail(sorted))

RECURSIVE sorted_channels(_, _)
\* sorted(filtered_channels.items(), key=channel_sort_key): stable, ascending
sorted_channels(list, k) ==
    IF k = 0 THEN <<>> ELSE InsertByKey(list[k], sorted_channels(list, k - 1))

\* the output file: '#EXTM3U', then per channel its #EXTINF line and its URLs
merge_write(sorted) ==
    <<[kind |-> "extm3u"]>>
    \o Flatten([c \in 1..Len(sorted) |->
          <<sorted[c].extinf>>
          \o [k \in 1..Len(sorted[c].urls) |->
                [kind |-> "url", line |-> sorted[c].urls[k]]]])

\* lines 109-150: the input is grouped by channel name
MergeParse ==
    /\ pc = "start"
    /\ channel_groups' = MergeLoop(input_file, 1, <<>>, <<>>)
    /\ pc' = "grouped"
    /\ UNCHANGED <<procData, m3u_urls, all_channels, accessible, pending,
                   final_channels>>

\* lines 152-186: deleted group-titles are dropped, merged ones renamed; the
\* loop changes the dicts of channel_groups in place
MergeFilter ==
    /\ pc = "grouped"
    /\ channel_groups' = [g \in 1..Len(channel_groups) |->
                             IF channel_groups[g].group_title \in groups_to_delete
                             THEN channel_groups[g]
                             ELSE Remapped(channel_groups[g])]
    /\ channels' = filtered_channels(channel_groups)
    /\ pc' = "filtered"
    /\ UNCHANGED <<input_file, max_threads, header_lines, future, consumed,
                   get_log, output_file, written, m3u_urls, all_channels,
                   accessible, pending, final_channels>>

\* lines 226-241: sort and write
MergeWrite ==
    /\ pc = "filtered"
    /\ output_file' = merge_write(sorted_channels(channels, Len(channels)))
    /\ written' = TRUE
    /\ pc' = "done"
    /\ UNCHANGED <<input_file, max_threads, header_lines, channels, future,
                   consumed, get_log, onlineVars>>

MergeNames ==
    {<<"C", "C", "T", "V", "1", "0">>, <<"c", "c", "t", "v", "-", "3">>,
     <<"B", "T", "V">>, <<>>}

MergeTitles == {"hk_old", "other", "sports", "Local"}

\* '#EXTINF:-1 group-title="t",name' and
\* '#EXTINF:-1 tvg-id="1" group-title="t",name'
MergeExtinfs ==
    {[kind |-> "extinf", duration |-> TRUE, attrs |-> a \o <<<<"group-title", t>>>>,
      name |-> n] :
        a \in {<<>>, <<<<"tvg-id", "1">>>>}, t \in MergeTitles, n \in MergeNames}

UrlLine == [kind |-> "url"]

\* the first entry: one URL line, two URL lines, or a comment before the URL
FirstEntries ==
    {<<e, UrlLine>> : e \in MergeExtinfs}
    \cup {<<e, UrlLine, UrlLine>> : e \in MergeExtinfs}
    \cup {<<e, [kind |-> "other"], UrlLine>> : e \in MergeExtinfs}

RECURSIVE Entries(_)
\* n further entries of one URL line each
Entries(n) ==
    IF n = 0 THEN {<<>>}
    ELSE {<<e, UrlLine>> \o rest : e \in MergeExtinfs, rest \in Entries(n - 1)}

MergeInputs ==
    {<<[kind |-> "extm3u"]>>}
    \cup {<<[kind |-> "extm3u"]>> \o first \o rest :
             first \in FirstEntries,
             rest \in UNION {Entries(n) : n \in 0..(MaxEntries - 1)}}

InitMerge ==
    /\ input_file \in MergeInputs
    /\ max_threads = 1
    /\ pc = "start"
    /\ header_lines = <<>>
    /\ channels = <<>>
    /\ future = <<>>
    /\ consumed = {}
    /\ get_log = {}
    /\ output_file = <<>>
    /\ written = FALSE
    /\ m3u_urls = <<>>
    /\ all_channels = <<>>
    /\ accessible = <<>>
    /\ pending = {}
    /\ channel_groups = <<>>
    /\ final_channels = <<>>

NextMerge == MergeParse \/ MergeFilter \/ MergeWrite

SpecMerge == InitMerge /\ [][NextMerge]_vars

(***************************************************************************)
(* Properties of merge_channels (SpecMerge), stated on the input and the   *)
(* output file.                                                            *)
(***************************************************************************)
\* the positions of the #EXTINF lines of the output
OutEntries == {k \in 1..Len(output_file) : output_file[k].kind = "extinf"}

\* the group-title an output #EXTINF line shows
OutTitle(k) == AttrGet(output_file[k].attrs, "group-title", "")

Ranked(t) == t \in DOMAIN group_priority

\* the #EXTINF line that owns URL line j of the input: the nearest one
\* before j
OwnerOf(j) ==
    LET before == {i \in 1..(j - 1) : input_file[i].kind = "extinf"}
    IN  CHOOSE i \in before : \A h \in before : h <= i

InputUrls == {j \in 1..Len(input_file) : input_file[j].kind = "url"}

\* URL lines that follow an #EXTINF entry
OwnedUrls ==
    {j \in InputUrls : \E i \in 1..(j - 1) : input_file[i].kind = "extinf"}

\* the first URL line behind its #EXTINF line
FirstOfEntry(j) ==
    /\ j \in OwnedUrls
    /\ \A h \in InputUrls : h < j => h < OwnerOf(j)

\* the URL lines the code attaches to the channel of the name n
SourcesOf(n) ==
    {j \in OwnedUrls : FirstOfEntry(j) /\ input_file[OwnerOf(j)].name = n}

EntryScore(i) ==
    1 + (IF input_file[i].duration THEN 1 ELSE 0) + Len(input_file[i].attrs)

\* the #EXTINF line kept for the name n: the first of the most complete ones
ChosenExtinf(n) ==
    LET es == {OwnerOf(j) : j \in SourcesOf(n)}
    IN  CHOOSE i \in es :
            \A h \in es : \/ EntryScore(h) < EntryScore(i)
                          \/ EntryScore(h) = EntryScore(i) /\ i <= h

\* the names that have a channel, and those whose channel is deleted
ChannelNames ==
    {input_file[i].name : i \in {h \in 1..Len(input_file) : input_file[h].kind = "extinf"}}
    \cap {n \in MergeNames : n # <<>> /\ SourcesOf(n) # {}}

Deleted(n) ==
    AttrGet(input_file[ChosenExtinf(n)].attrs, "group-title", "") \in groups_to_delete

\* the input lines of the URLs written under the output #EXTINF at k
UrlsUnder(k) ==
    LET next == {h \in OutEntries : h > k}
        stop == IF next = {} THEN Len(output_file) + 1
                ELSE CHOOSE h \in next : \A g \in next : h <= g
    IN  [u \in 1..(stop - k - 1) |-> output_file[k + u].line]

\* C13: of two output channels whose group-titles have distinct priority
\* numbers, the one with the lower number is written first.
C13_LowerPriorityNumberFirst ==
    pc = "done" =>
        \A a, b \in OutEntries :
            (/\ Ranked(OutTitle(a)) /\ Ranked(OutTitle(b))
             /\ group_priority[OutTitle(a)] < group_priority[OutTitle(b)])
            => a < b

\* the channel with the lower number came later in the input and has the
\* greater name
C13_Witness ==
    /\ pc = "done"
    /\ \E a, b \in OutEntries :
          /\ Ranked(OutTitle(a)) /\ Ranked(OutTitle(b))
          /\ group_priority[OutTitle(a)] < group_priority[OutTitle(b)]
          /\ a < b
          /\ LexLess(NameCodes(output_file[b].name), NameCodes(output_file[a].name))
          /\ UrlsUnder(b)[1] < UrlsUnder(a)[1]

\* C14 as stated: every channel whose group-title is not a key of the
\* priority table is written after every channel whose group-title is one.
C14_UnrankedAfterRanked ==
    pc = "done" =>
        \A a, b \in OutEntries :
            (~Ranked(OutTitle(a)) /\ Ranked(OutTitle(b))) => b < a

\* C14 amended: a channel with an unranked group-title is written after every
\* channel whose group-title has a priority number below 10; against a
\* channel of '其他' it is ordered by the group-title strings.
C14_UnrankedAfterNumbersBelowTen ==
    pc = "done" =>
        \A a, b \in OutEntries :
            (~Ranked(OutTitle(a)) /\ Ranked(OutTitle(b))) =>
                IF group_priority[OutTitle(b)] < 10 THEN b < a
                ELSE (a < b <=> StrLess(OutTitle(a), OutTitle(b)))

\* an unranked channel that comes later in the input is written before a
\* channel of '其他'
C14_Witness ==
    /\ pc = "done"
    /\ \E a, b \in OutEntries :
          /\ OutTitle(a) = "Local" /\ OutTitle(b) = "other"
          /\ a < b
          /\ UrlsUnder(b)[1] < UrlsUnder(a)[1]

\* C15 as stated: of two output channels with equal priority number whose
\* names match cctv<optional '-'><number>, the one with the smaller number
\* is written first.
C15_NumericWithinPriority ==
    pc = "done" =>
        \A a, b \in OutEntries :
            LET na == Lower(output_file[a].name)
                nb == Lower(output_file[b].name)
            IN  (/\ GroupRank(OutTitle(a)) = GroupRank(OutTitle(b))
                 /\ StartsWithCctv(na) /\ CctvSearch(na) # <<>>
                 /\ StartsWithCctv(nb) /\ CctvSearch(nb) # <<>>
                 /\ CctvSearch(na)[1] < CctvSearch(nb)[1])
                => a < b

\* C15 amended: the same for two output channels with the same group-title.
C15_NumericWithinTitle ==
    pc = "done" =>
        \A a, b \in OutEntries :
            LET na == Lower(output_file[a].name)
                nb == Lower(output_file[b].name)
            IN  (/\ OutTitle(a) = OutTitle(b)
                 /\ StartsWithCctv(na) /\ CctvSearch(na) # <<>>
                 /\ StartsWithCctv(nb) /\ CctvSearch(nb) # <<>>
                 /\ CctvSearch(na)[1] < CctvSearch(nb)[1])
                => a < b

\* 'cctv-3' is written before 'CCTV10' of the same group-title although
\* 'CCTV10' comes first in the input and is the smaller string
C15_Witness ==
    /\ pc = "done"
    /\ \E a, b \in OutEntries :
          /\ OutTitle(a) = OutTitle(b)
          /\ output_file[a].name = <<"c", "c", "t", "v", "-", "3">>
          /\ output_file[b].name = <<"C", "C", "T", "V", "1", "0">>
          /\ a < b
          /\ UrlsUnder(b)[1] < UrlsUnder(a)[1]
          /\ LexLess(NameCodes(output_file[b].name), NameCodes(output_file[a].name))

\* '港澳台', '💓专享央视', '💓专享卫视' and the labels they are merged into
OldLabels == {"hk_old", "vip_cctv", "vip_sat"}

MergedLabel(t) ==
    CASE t = "hk_old" -> "hk_group" [] t = "vip_cctv" -> "cctv_group"
      [] t = "vip_sat" -> "sat_group"

\* the position of the output #EXTINF line of the channel named n
OutEntryOf(n) == CHOOSE k \in OutEntries : output_file[k].name = n

WrittenUrls ==
    {output_file[k].line : k \in {h \in 1..Len(output_file) : output_file[h].kind = "url"}}

\* C17: no URL listed under an #EXTINF entry whose group-title is in the
\* delete list is written, also when another entry of the same channel name
\* has a group-title that is not deleted.
C17_DeletedEntryUrlsAbsent ==
    pc = "done" =>
        \A j \in OwnedUrls :
            AttrGet(input_file[OwnerOf(j)].attrs, "group-title", "") \in groups_to_delete
            => j \notin WrittenUrls

\* S as an ascending sequence
Ascending(S) == SelectIdx([i \in 1..Len(input_file) |-> i \in S], 1, Len(input_file))

\* C18 as stated: every URL line that follows an #EXTINF entry, directly or
\* behind earlier URL lines of the entry, is written under the name of the
\* entry unless the channel is deleted, in input order.
C18_AllUrlLinesKept ==
    pc = "done" =>
        \A n \in ChannelNames :
            ~Deleted(n) =>
                /\ \E k \in OutEntries : output_file[k].name = n
                /\ UrlsUnder(OutEntryOf(n)) =
                      Ascending({j \in OwnedUrls : input_file[OwnerOf(j)].name = n})

(***************************************************************************)
(* SpecProbe: merged_m3u_processor.M3UProcessor.process on playlists of    *)
(* one channel whose URLs are reachable and carry the environment of       *)
(* get_stream_info, alone or next to a URL that is analysed without fault. *)
(***************************************************************************)
NoStream ==
    [codec_type |-> "video", width |-> "", height |-> "", bit_rate |-> "",
     avg_bit_rate |-> "", start_time |-> ""]

NoFormat == [bit_rate |-> "", start_time |-> "", probe_score |-> ""]

\* sample outputs of the two invocations: nothing, something that is not a
\* report, a report without a resolution, and a report of a 1920x1080
\* stream of 2000000 bit/s with start time 0 and probe score 100
CsvOut(kind) ==
    CASE kind = "empty" -> <<>>
      [] kind = "garbled" -> <<<<"abc">>>>
      [] kind = "res" -> << <<"1920", "1080", "0", "N/A", "2000000">>,
                            <<"N/A", "N/A", "N/A", "100">> >>

JsonOut(kind) ==
    CASE kind = "empty" -> [json |-> "empty", streams |-> <<>>, format |-> NoFormat]
      [] kind = "garbled" -> [json |-> "garbled", streams |-> <<>>, format |-> NoFormat]
      [] kind = "nores" -> [json |-> "ok", streams |-> <<NoStream>>, format |-> NoFormat]
      [] kind = "res" ->
            [json |-> "ok",
             streams |-> <<[NoStream EXCEPT !.width = "1920", !.height = "1080",
                                             !.bit_rate = "2000000",
                                             !.start_time = "0"]>>,
             format |-> [NoFormat EXCEPT !.probe_score = "100"]]

NoCompact == [how |-> "exit", rc |-> 0, out |-> CsvOut("res")]

NoVerbose == [how |-> "exit", rc |-> 0, out |-> JsonOut("res")]

Runs(outs) ==
    {[how |-> h, rc |-> 0, out |-> o] : h \in {"timeout", "error"}, o \in outs}
    \cup {[how |-> "exit", rc |-> r, out |-> o] : r \in {0, 1}, o \in outs}

\* the environments, with the answers that are never asked for left at a
\* default
ProbeEnvs ==
    {[m3u8 |-> m, path |-> "ok", common |-> "ok", getcwd |-> "ok",
      compact |-> NoCompact, verbose |-> NoVerbose] : m \in {"master_res", "master_nores"}}
    \cup {[m3u8 |-> m, path |-> p, common |-> "none", getcwd |-> g,
           compact |-> NoCompact, verbose |-> NoVerbose] :
             m \in {"raise", "media"}, p \in {"missing", "error"},
             g \in {"ok", "raise"}}
    \cup {[m3u8 |-> m, path |-> l[1], common |-> l[2], getcwd |-> "ok",
           compact |-> c, verbose |-> v] :
             m \in {"raise", "media"},
             l \in {<<"ok", "ok">>, <<"missing", "ok">>, <<"error", "ok">>},
             c \in Runs({CsvOut(k) : k \in {"empty", "garbled", "res"}}),
             v \in Runs({JsonOut(k) : k \in {"empty", "garbled", "nores", "res"}})}

ProbedUrl(e) ==
    [kind |-> "url",
     probe |-> [denied |-> FALSE, head |-> "ok", env |-> e, get |-> "ok"]]

ProbePlaylists ==
    {<<Extinf("A"), ProbedUrl(e)>> : e \in ProbeEnvs}
    \cup {<<Extinf("A"), ProbedUrl(e), GoodUrl>> : e \in ProbeEnvs}
    \cup {<<Extinf("A"), GoodUrl, ProbedUrl(e)>> : e \in ProbeEnvs}

InitProbe ==
    /\ input_file \in ProbePlaylists
    /\ max_threads \in 1..MaxThreads
    /\ pc = "start"
    /\ header_lines = <<>>
    /\ channels = <<>>
    /\ future = <<>>
    /\ consumed = {}
    /\ get_log = {}
    /\ output_file = <<>>
    /\ written = FALSE
    /\ m3u_urls = <<>>
    /\ all_channels = <<>>
    /\ accessible = <<>>
    /\ pending = {}
    /\ channel_groups = <<>>
    /\ final_channels = <<>>

SpecProbe == InitProbe /\ [][NextProc]_vars

\* the tool is not found, or the invocation that decides the result times
\* out, fails to run, or prints nothing usable
ProbeFails(e) ==
    /\ e.m3u8 \in {"raise", "media"}
    /\ \/ e.path # "ok" /\ e.common # "ok"
       \/ e.compact.how # "exit"
       \/ e.compact.out = CsvOut("garbled")
       \/ /\ e.compact.out = CsvOut("empty")
          /\ \/ e.verbose.how # "exit"
             \/ e.verbose.out \in {JsonOut("empty"), JsonOut("garbled")}

\* C19: get_stream_info never raises: after the analysis every URL of a
\* channel has its quality entry, and a URL whose probe fails (tool not
\* found, timeout, nothing usable printed) has the resolution '未知' there
\* and is not written.
C19_ProbeFailureGivesUnknown ==
    pc \in {"analyzed", "done"} =>
        \A c \in 1..Len(channels) :
            /\ Len(channels[c].quality_info_list) = Len(channels[c].urls)
            /\ \A i \in 1..Len(channels[c].urls) :
                  LET u == channels[c].urls[i]
                  IN  ("env" \in DOMAIN input_file[u].probe
                       /\ ProbeFails(input_file[u].probe.env))
                      => /\ channels[c].quality_info_list[i].resolution = "unknown"
                         /\ u \notin Range(output_file)

\* C20: a run of main that parsed zero channels, or that caught a failure,
\* does not end with exit status 0: the process returns normally only after
\* a playlist with at least one channel was processed and saved.
C20_ZeroChannelsAndFailuresExitNonZero ==
    pc = "exit_0" => (channels # <<>> /\ written)

(***************************************************************************)
(* SpecStreamInfo: one call of get_stream_info, stage by stage.            *)
(* input_file holds the environment of the call, get_log the ffprobe       *)
(* invocations made so far ("compact", "verbose"), output_file the tuple   *)
(* returned; pc is "raised" when the call ends with an exception.          *)
(***************************************************************************)
MaxRows == 2

MaxStreams == 2

StartTokens ==
    {"", "N/A", "abc", "-1", "0", "0.05", "0.09", "0.1", "0.14", "42.7",
     "3599.94", "3599.96", "3600", "5000"}

BitTokens == {"", "N/A", "0", "500", "999999", "2000000", "1500999.9"}

\* lines of the CSV output that are combined freely: stream lines, format
\* lines, and lines that are neither
CsvLines ==
    {<<"1920", "1080", "42.7", "N/A", "N/A">>,
     <<"1920", "1080", "0", "N/A", "0">>,
     <<"1920", "1080", "0", "N/A", "2000000">>,
     <<"N/A", "N/A", "0", "N/A", "2000000">>,
     <<"N/A", "N/A", "2000000", "100">>,
     <<"N/A", "N/A", "0", "60">>,
     <<"N/A", "N/A", "N/A", "30">>,
     <<"720", "576">>, <<"abc">>, <<"">>}

\* outputs of one stream line, with every start time and bitrate field,
\* alone or followed by a format line
CsvSingles ==
    {<<<<"1920", "1080", s, "N/A", b>>>> : s \in StartTokens, b \in BitTokens}
    \cup {<<<<"1920", "1080", "0", "N/A", b>>, <<"N/A", "N/A", f, "100">>>> :
             b \in BitTokens, f \in BitTokens}

CsvOutputs == CsvSingles \cup UNION {[1..n -> CsvLines] : n \in 0..MaxRows}

\* streams of the JSON report that are combined freely
JsonStreams ==
    {[NoStream EXCEPT !.width = "1920", !.height = "1080"],
     [NoStream EXCEPT !.width = "1920", !.height = "1080", !.avg_bit_rate = "999999"],
     [NoStream EXCEPT !.width = "1920", !.height = "1080", !.bit_rate = "0",
                      !.avg_bit_rate = "999999"],
     [NoStream EXCEPT !.width = "720", !.height = "576", !.bit_rate = "2000000"],
     [NoStream EXCEPT !.width = "720", !.height = "576", !.start_time = "0.14"],
     [NoStream EXCEPT !.width = "1920", !.bit_rate = "2000000"],
     NoStream,
     [NoStream EXCEPT !.codec_type = "audio", !.bit_rate = "500",
                      !.start_time = "42.7"]}

\* reports of one video stream, with every bitrate and start time field
JsonSingles ==
    {<<[NoStream EXCEPT !.width = "1920", !.height = "1080", !.bit_rate = b,
                        !.avg_bit_rate = a, !.start_time = s]>> :
        b \in BitTokens, a \in {"", "999999"}, s \in StartTokens}

JsonFormats ==
    {[bit_rate |-> b, start_time |-> f[1], probe_score |-> f[2]] :
        b \in {"", "N/A", "500"},
        f \in {<<"", "">>, <<"5000", "100">>, <<"0.14", "60">>}}

JsonReports ==
    {[json |-> j, streams |-> <<>>, format |-> NoFormat] : j \in {"empty", "garbled"}}
    \cup {[json |-> "ok", streams |-> s, format |-> f] :
            s \in JsonSingles \cup UNION {[1..n -> JsonStreams] : n \in 0..MaxStreams},
            f \in JsonFormats}

StreamEnvs ==
    {[m3u8 |-> m, path |-> "ok", common |-> "ok", getcwd |-> "ok",
      compact |-> NoCompact, verbose |-> NoVerbose] : m \in {"master_res", "master_nores"}}
    \cup {[m3u8 |-> m, path |-> p, common |-> "none", getcwd |-> g,
           compact |-> NoCompact, verbose |-> NoVerbose] :
             m \in {"raise", "media"}, p \in {"missing", "error"},
             g \in {"ok", "raise"}}
    \cup {[m3u8 |-> "media", path |-> l[1], common |-> l[2], getcwd |-> "ok",
           compact |-> c, verbose |-> v] :
             l \in {<<"ok", "ok">>, <<"missing", "ok">>},
             c \in {[how |-> h, rc |-> 0, out |-> <<>>] : h \in {"timeout", "error"}}
                   \cup {[how |-> "exit", rc |-> r, out |-> CsvOut(k)] :
                           r \in {0, 1}, k \in {"empty", "res"}},
             v \in {NoVerbose}
                   \cup {[how |-> h, rc |-> 0, out |-> JsonOut("res")] :
                           h \in {"timeout", "error"}}}
    \cup {[m3u8 |-> "media", path |-> "ok", common |-> "ok", getcwd |-> "ok",
           compact |-> [how |-> "exit", rc |-> 0, out |-> o],
           verbose |-> NoVerbose] : o \in CsvOutputs}
    \cup {[m3u8 |-> "media", path |-> "ok", common |-> "ok", getcwd |-> "ok",
           compact |-> [how |-> "exit", rc |-> 1, out |-> <<>>],
           verbose |-> [how |-> "exit", rc |-> 0, out |-> j]] : j \in JsonReports}

\* lines 181-213: the m3u8 library
StreamManifest ==
    /\ pc = "start"
    /\ IF input_file.m3u8 = "master_res"
       THEN output_file' = InfoManifest /\ pc' = "returned"
       ELSE IF input_file.m3u8 = "master_nores"
       THEN output_file' = InfoUnknown /\ pc' = "returned"
       ELSE output_file' = output_file /\ pc' = "lookup"
    /\ UNCHANGED <<input_file, max_threads, header_lines, channels, future,
                   consumed, get_log, written, onlineVars>>

\* lines 216-271: looking for ffprobe
StreamLookup ==
    /\ pc = "lookup"
    /\ IF FfprobePath(input_file) # <<>>
       THEN output_file' = output_file /\ pc' = "compact"
       ELSE IF FfprobeNotFound(input_file) = Raised
       THEN output_file' = output_file /\ pc' = "raised"
       ELSE output_file' = FfprobeNotFound(input_file) /\ pc' = "returned"
    /\ UNCHANGED <<input_file, max_threads, header_lines, channels, future,
                   consumed, get_log, written, onlineVars>>

\* lines 292-312 and 454-582: the CSV invocation
StreamCompact ==
    /\ pc = "compact"
    /\ get_log' = get_log \cup {"compact"}
    /\ IF input_file.compact.how # "exit"
       THEN output_file' = InfoUnknown /\ pc' = "returned"
       ELSE IF VerboseNeeded(input_file.compact.out)
       THEN output_file' = output_file /\ pc' = "verbose"
       ELSE output_file' = CsvParse(input_file.compact.out) /\ pc' = "returned"
    /\ UNCHANGED <<input_file, max_threads, header_lines, channels, future,
                   consumed, written, onlineVars>>

\* lines 314-452: the JSON invocation
StreamVerbose ==
    /\ pc = "verbose"
    /\ get_log' = get_log \cup {"verbose"}
    /\ output_file' = VerboseProbe(input_file)
    /\ pc' = "returned"
    /\ UNCHANGED <<input_file, max_threads, header_lines, channels, future,
                   consumed, written, onlineVars>>

InitStreamInfo ==
    /\ input_file \in StreamEnvs
    /\ max_threads = 1
    /\ pc = "start"
    /\ header_lines = <<>>
    /\ channels = <<>>
    /\ future = <<>>
    /\ consumed = {}
    /\ get_log = {}
    /\ output_file = <<>>
    /\ written = FALSE
    /\ m3u_urls = <<>>
    /\ all_channels = <<>>
    /\ accessible = <<>>
    /\ pending = {}
    /\ channel_groups = <<>>
    /\ final_channels = <<>>

NextStreamInfo ==
    \/ StreamManifest
    \/ StreamLookup
    \/ StreamCompact
    \/ StreamVerbose

SpecStreamInfo == InitStreamInfo /\ [][NextStreamInfo]_vars

\* the stages return what get_stream_info computes in one piece
StagesAgree ==
    /\ pc = "returned" => output_file = get_stream_info(input_file)
    /\ pc = "raised" => get_stream_info(input_file) = Raised

\* the call returned the result of parsing the CSV output
ReturnedFromCsv ==
    /\ pc = "returned"
    /\ get_log = {"compact"}
    /\ input_file.compact.how = "exit"

\* the call returned the result of the JSON branch
ReturnedFromJson ==
    /\ pc = "returned"
    /\ "verbose" \in get_log
    /\ input_file.verbose.how = "exit"
    /\ input_file.verbose.out.json = "ok"

\* the start_time field the returning branch read, "" when there is none
StartField ==
    IF ReturnedFromCsv
    THEN LET sp == CsvParts(input_file.compact.out).stream_parts
         IN  IF Len(sp) >= 3 /\ sp[3] # "N/A" THEN sp[3] ELSE ""
    ELSE IF ReturnedFromJson /\ input_file.verbose.out.streams # <<>>
    THEN LET data == input_file.verbose.out
             st == data.streams[JsonDetected(data).stream]
         IN  IF st.start_time # "" THEN st.start_time ELSE data.format.start_time
    ELSE ""

\* a resolution was returned together with a parsed start time
StartParsed ==
    /\ ReturnedFromCsv \/ ReturnedFromJson
    /\ output_file[1] # "unknown"
    /\ StartField # ""
    /\ Float(StartField) # <<>>

\* the number of tenths of a second the one-decimal string of s denotes
TenthsShown(s) == (s + 5) \div 10

\* the three cases of the classification, s in hundredths of a second
DelayCases(s, d) ==
    /\ d = "realtime" <=> s < 10
    /\ d = "unknown" <=> s >= 360000
    /\ (10 <= s /\ s < 360000) => d = OneDecimal(s)
    /\ s = 5 => d = "realtime"
    /\ s = 4270 => d = "42.7s"
    /\ s = 500000 => d = "unknown"

\* C21: in both branches a parsed start time s gives 'realtime' iff
\* s < 0.1, its one-decimal string iff 0.1 <= s < 3600 and 'unknown' iff
\* s >= 3600, and no delay string that is emitted denotes 3600 seconds or
\* more.
C21_DelayBelowOneHour ==
    StartParsed =>
        LET s == Float(StartField)[1]
        IN  /\ DelayCases(s, output_file[3])
            /\ (10 <= s /\ s < 360000) => TenthsShown(s) < 36000

\* C21 as the code has it: the one-decimal string is the start time rounded
\* to tenths, so it denotes at most 3600.0 seconds, and '3600.0s' is what
\* the start times below 3600 that round to 3600.0 are shown as.
C21_DelayAtMostOneHour ==
    StartParsed =>
        LET s == Float(StartField)[1]
        IN  /\ DelayCases(s, output_file[3])
            /\ (10 <= s /\ s < 360000) => TenthsShown(s) <= 36000
            /\ output_file[3] = "3600.0s" <=> (s < 360000 /\ TenthsShown(s) = 36000)

C21_Witness ==
    /\ StartParsed
    /\ ReturnedFromJson
    /\ StartField = "3599.96"
    /\ output_file[3] = "3600.0s"

\* the lines of the channels in order, one after the other
ChannelLines == Flatten([c \in 1..Len(channels) |-> channels[c].original_lines])

\* the input lines before the first '#EXTINF:' line
BeforeFirstExtinf ==
    {i \in 1..Len(input_file) :
        \A j \in 1..i : input_file[j].kind # "extinf"}

\* the '#EXTINF:' line nearest before line i, or i itself
NearestExtinf(i) ==
    CHOOSE j \in 1..i :
        /\ input_file[j].kind = "extinf"
        /\ \A k \in (j + 1)..i : input_file[k].kind # "extinf"

\* C22: after parsing, header_lines followed by the original_lines of all
\* channels in order is the sequence of input lines; header_lines is the
\* lines before the first '#EXTINF:' line, every later line belongs to the
\* channel opened by the nearest '#EXTINF:' line before it, and the URL
\* lines of a channel are its urls.
C22_ParsePartitionsInput ==
    pc \notin {"start"} =>
        /\ header_lines \o ChannelLines = [i \in 1..Len(input_file) |-> i]
        /\ Range(header_lines) = BeforeFirstExtinf
        /\ \A c \in 1..Len(channels) :
              LET ol == channels[c].original_lines
              IN  /\ ol # <<>>
                  /\ input_file[ol[1]].kind = "extinf"
                  /\ \A k \in 1..Len(ol) : NearestExtinf(ol[k]) = ol[1]
                  /\ channels[c].urls
                        = SelectSeq(ol, LAMBDA i : input_file[i].kind = "url")

C22_Witness ==
    /\ pc = "parsed"
    /\ header_lines # <<>>
    /\ Len(channels) >= 2
    /\ Len(channels[1].original_lines) >= 2

\* C23: once the CSV invocation has run, the JSON invocation is made if and
\* only if no resolution is parsed from the CSV output, be the output
\* empty or not.
C23_VerboseIffNoResolutionParsed ==
    (pc = "returned" /\ "compact" \in get_log /\ input_file.compact.how = "exit")
        => ("verbose" \in get_log
               <=> CsvParse(input_file.compact.out)[1] = "unknown")

\* the video streams of the report, as positions in the list
VideoStreams(data) ==
    {i \in 1..Len(data.streams) : data.streams[i].codec_type = "video"}

Least(S) == CHOOSE i \in S : \A j \in S : i <= j

\* the bit_rate of the first video stream that has one, else the
\* avg_bit_rate of the first video stream that has one, else the bit_rate
\* of the format
BitrateInTwoPasses(data) ==
    LET withBitRate == {i \in VideoStreams(data) : data.streams[i].bit_rate # ""}
        withAverage == {i \in VideoStreams(data) : data.streams[i].avg_bit_rate # ""}
    IN  IF withBitRate # {} THEN data.streams[Least(withBitRate)].bit_rate
        ELSE IF withAverage # {} THEN data.streams[Least(withAverage)].avg_bit_rate
        ELSE data.format.bit_rate

\* the first video stream that has a bit_rate or an avg_bit_rate decides,
\* with its bit_rate if it has one and its avg_bit_rate otherwise; without
\* such a stream the bit_rate of the format
BitrateInOnePass(data) ==
    LET withEither == {i \in VideoStreams(data) :
                          \/ data.streams[i].bit_rate # ""
                          \/ data.streams[i].avg_bit_rate # ""}
        st == data.streams[Least(withEither)]
    IN  IF withEither = {} THEN data.format.bit_rate
        ELSE IF st.bit_rate # "" THEN st.bit_rate
        ELSE st.avg_bit_rate

\* the JSON branch returned a resolution
JsonResolved == ReturnedFromJson /\ output_file[1] # "unknown"

\* C24: the bitrate the JSON branch returns is that of the bit_rate of the
\* first video stream that has one; if no video stream has one, of the
\* avg_bit_rate of the first video stream that has one; if no video stream
\* has either, of the bit_rate of the format.
C24_BitrateInstantThenAverage ==
    JsonResolved =>
        output_file[2] = JsonBitrate(BitrateInTwoPasses(input_file.verbose.out))

\* C24 as the code has it: the first video stream with a bit_rate or an
\* avg_bit_rate decides, the bit_rate being preferred within that stream;
\* the bit_rate of the format is used when no video stream has either.
C24_BitrateOfFirstStreamWithEither ==
    JsonResolved =>
        output_file[2] = JsonBitrate(BitrateInOnePass(input_file.verbose.out))

C24_Witness ==
    /\ JsonResolved
    /\ Len(input_file.verbose.out.streams) = 2
    /\ input_file.verbose.out.streams[1].codec_type = "video"
    /\ input_file.verbose.out.streams[1].bit_rate = ""
    /\ input_file.verbose.out.streams[1].avg_bit_rate = "999999"
    /\ input_file.verbose.out.streams[2].codec_type = "video"
    /\ input_file.verbose.out.streams[2].bit_rate = "2000000"
    /\ output_file[2] = "999 kbps"

\* the video streams that report both width and height
WithResolution(data) ==
    {i \in VideoStreams(data) :
        data.streams[i].width # "" /\ data.streams[i].height # ""}

\* C25: the resolution the JSON branch returns for a report is the width x
\* height of the first video stream that reports both, whatever streams
\* carry bitrate fields and whatever video streams follow; it is unknown
\* only when no video stream reports both.
C25_ResolutionOfFirstVideoStream ==
    ReturnedFromJson =>
        LET data == input_file.verbose.out
        IN  IF WithResolution(data) = {} THEN output_file[1] = "unknown"
            ELSE output_file[1]
                    = data.streams[Least(WithResolution(data))].width \o "x"
                      \o data.streams[Least(WithResolution(data))].height

\* a bitrate field that counts as absent: missing, 'N/A' or zero
BitrateAbsent(t) == t \in {"", "N/A", "0"}

\* floor(b / 1000) kbps for the first of the sources that is present, and
\* unknown when none is
BitrateOfSources(sources) ==
    LET present == {i \in 1..Len(sources) : ~BitrateAbsent(sources[i])}
    IN  IF present = {} THEN "unknown"
        ELSE Str((Float(sources[Least(present)])[1] \div 100) \div 1000)
                \o " kbps"

\* the CSV branch returned a resolution from a stream line of at least five
\* fields, the format line being a line of four fields if there is one
CsvResolved ==
    /\ ReturnedFromCsv
    /\ output_file[1] # "unknown"
    /\ Len(CsvParts(input_file.compact.out).stream_parts) >= 5
    /\ Len(CsvParts(input_file.compact.out).format_parts) \in {0, 4}

\* the bitrate sources of the CSV branch in the order they are tried
CsvSources ==
    LET sp == CsvParts(input_file.compact.out).stream_parts
        fp == CsvParts(input_file.compact.out).format_parts
    IN  <<sp[5]>> \o (IF fp = <<>> THEN <<>> ELSE <<fp[3]>>)

\* the bitrate sources of the JSON branch in the order they are tried
JsonSources ==
    LET data == input_file.verbose.out
    IN  Flatten([i \in 1..Len(data.streams) |->
                    IF data.streams[i].codec_type = "video"
                    THEN <<data.streams[i].bit_rate, data.streams[i].avg_bit_rate>>
                    ELSE <<>>])
        \o <<data.format.bit_rate>>

\* C26: in the CSV branch and in the JSON branch alike, a bitrate source
\* that is zero or 'N/A' is passed over for the next source, the bitrate is
\* unknown when no source remains, and a present bitrate b is returned as
\* floor(b / 1000) kbps; a zero is never returned as '0 kbps'.
C26_BitrateUniformOverBranches ==
    /\ CsvResolved => output_file[2] = BitrateOfSources(CsvSources)
    /\ JsonResolved => output_file[2] = BitrateOfSources(JsonSources)

\* the CSV branch alone derives the bitrate that way
CsvBitrateAsClaimed ==
    CsvResolved => output_file[2] = BitrateOfSources(CsvSources)

\* a resolution as the pair of integers (width, height), (0, 0) for unknown
ResolutionPair(r) ==
    CASE r = "unknown"   -> <<0, 0>>
      [] r = "1920x1080" -> <<1920, 1080>>
      [] r = "720x576"   -> <<720, 576>>

\* a < b for two such pairs, lexicographically
PairLess(a, b) == a[1] < b[1] \/ (a[1] = b[1] /\ a[2] < b[2])

\* C27: within one identity group the entries m3u_process emits are in
\* descending order of resolution, the resolutions compared as pairs of
\* integers (width, height), so that 1920x1080 comes before 720x576 and an
\* unknown resolution comes last.
C27_ResolutionDescendingAsPairs ==
    pc = "done" =>
        \A k \in GroupNames :
            LET out == WithName(final_channels, k)
            IN  \A i, j \in 1..Len(out) :
                    i < j => ~PairLess(ResolutionPair(out[i].resolution),
                                       ResolutionPair(out[j].resolution))

\* sort_m3u orders the entries of one group-title and name that way
SortResolutionDescending ==
    pc = "sorted" =>
        \A i, j \in 1..Len(channels) :
            (/\ i < j
             /\ channels[i].name = channels[j].name
             /\ channels[i].group_title = channels[j].group_title)
                => ~PairLess(ResolutionPair(channels[i].quality[1].resolution),
                             ResolutionPair(channels[j].quality[1].resolution))

\* a and b are entries of one group with the same resolution
SameGroupAndResolution(a, b) ==
    /\ channel_name(a) = channel_name(b)
    /\ channel_name(a) # ""
    /\ a.resolution = b.resolution

\* a and b are emitted, a before b
EmittedBefore(a, b) ==
    \E i, j \in 1..Len(final_channels) :
        i < j /\ final_channels[i] = a /\ final_channels[j] = b

GbkAttempts == {i \in 1..Len(get_log) : get_log[i].encoding = "gbk"}

\* C29: when the file fails to decode as UTF-8, sort_m3u's parser opens it
\* as GBK exactly once and ends; if the GBK decoding succeeds the channels
\* are those parsed from the text, and the result is empty only if the GBK
\* decoding fails too.
C29_GbkRetriedOnceAndParsed ==
    (/\ pc = "parsed"
     /\ get_log # <<>>
     /\ get_log[1].result = "UnicodeDecodeError")
        => /\ Cardinality(GbkAttempts) = 1
           /\ \A i \in GbkAttempts :
                 get_log[i].result = "ok"
                    => channels = SortedByTitle(input_file, Len(input_file))
           /\ (channels = <<>> /\ input_file # <<>>)
                 => \E i \in GbkAttempts : get_log[i].result # "ok"

(***************************************************************************)
(* update_channel_names: main loads the alias file and calls                *)
(* update_m3u_channels, which reads m3u_file, writes the updated lines to   *)
(* output_file, removes m3u_file and renames output_file to m3u_file.       *)
(* Names and attribute values are sequences of characters.  In this         *)
(* specification input_file is the command line and the files found at      *)
(* start, all_channels is alias_map in insertion order, channels is the     *)
(* file system, header_lines is updated_lines and output_file holds the     *)
(* value returned by update_m3u_channels.                                   *)
(***************************************************************************)

MaxPlaylistLines == 2

Files == {"a.m3u", "b.m3u"}

\* the paths given on the command line; "nodir" is a directory that does
\* not exist
Paths == {"a.m3u", "./a.m3u", "b.m3u", "nodir/b.m3u"}

\* the file a path names
FileOf(path) == IF path = "./a.m3u" THEN "a.m3u" ELSE path

NoFile == [exists |-> FALSE, decodable |-> TRUE, lines |-> <<>>]

TextFile(lines) == [exists |-> TRUE, decodable |-> TRUE, lines |-> lines]

\* a file whose bytes are not valid UTF-8
BinaryFile == [exists |-> TRUE, decodable |-> FALSE, lines |-> <<>>]

\* os.path.exists
path_exists(fs, path) == FileOf(path) \in Files /\ fs[FileOf(path)].exists

\* a line of a playlist: an #EXTINF line with its attributes (<<>> when the
\* attribute is absent) and the text after the last comma, or any other
\* line with its text
ExtinfLine(tvg_name, tvg_logo, group_title, name) ==
    [extinf |-> TRUE, tvg_name |-> tvg_name, tvg_logo |-> tvg_logo,
     group_title |-> group_title, name |-> name]

OtherLine(text) ==
    [extinf |-> FALSE, tvg_name |-> <<>>, tvg_logo |-> <<>>,
     group_title |-> <<>>, name |-> text]

UpdateLines ==
    { ExtinfLine(<<>>, <<>>, <<"t">>, <<"c", "1">>),
      ExtinfLine(<<"b">>, <<>>, <<"t">>, <<"C", "1">>),
      ExtinfLine(<<>>, <<"l">>, <<>>, <<"c", "1">>),
      ExtinfLine(<<>>, <<>>, <<"c", "1">>, <<"c", "1">>),
      ExtinfLine(<<>>, <<>>, <<>>, <<"b">>),
      OtherLine(<<"u">>),
      OtherLine(<<"#">>) }

UpdatePlaylists == UNION {[1..n -> UpdateLines] : n \in 0..MaxPlaylistLines}

\* the alias file: each line is the list line.split(',') gives
AliasFiles ==
    LET main == <<"C", "1">>
        alias == <<"c", "1">>
        other == <<"b">>
        comment == <<"#", "C", "1">>
        blank == <<>>
    IN  { <<>>,
          << <<comment>> >>,
          << <<main>> >>,
          << <<blank>>, <<main, alias>> >>,
          << <<other, main>>, <<main>> >> }

\* zhconv.convert(name, 'zh-hans'): the characters of these names have no
\* simplified form of their own
zh_hans(name) == name

\* the position of key among the keys of a dict, 0 when it is not one
KeyIndex(map, key) ==
    IF \E i \in 1..Len(map) : map[i][1] = key
    THEN CHOOSE i \in 1..Len(map) : map[i][1] = key
    ELSE 0

\* map[key] = value of a dict: a new key goes last, a known key keeps its
\* place
DictSet(map, key, value) ==
    IF KeyIndex(map, key) = 0
    THEN Append(map, <<key, value>>)
    ELSE [map EXCEPT ![KeyIndex(map, key)] = <<key, value>>]

RECURSIVE SetAliases(_, _, _, _)
\* the body of load_alias_map for one line: the main name, then each alias
SetAliases(map, parts, k, main_name) ==
    IF k > Len(parts)
    THEN map
    ELSE SetAliases(DictSet(map, parts[k], main_name), parts, k + 1,
                    main_name)

RECURSIVE load_alias_map(_, _, _)
load_alias_map(lines, i, map) ==
    IF i > Len(lines)
    THEN map
    ELSE LET parts == lines[i]
             ignored == \/ parts = <<<<>>>>
                        \/ parts[1] # <<>> /\ parts[1][1] = "#"
         IN  load_alias_map(lines, i + 1,
                 IF ignored THEN map
                 ELSE SetAliases(map, parts, 1, parts[1]))

RECURSIVE FirstSimpleMatch(_, _, _)
\* the first pair of alias_map whose alias equals the name once both are
\* simplified and lowered, <<>> when there is none
FirstSimpleMatch(map, i, name) ==
    IF i > Len(map)
    THEN <<>>
    ELSE IF Lower(zh_hans(map[i][1])) = Lower(zh_hans(name))
         THEN <<map[i][2]>>
         ELSE FirstSimpleMatch(map, i + 1, name)

\* match_channel: <<main_name>>, or <<>> for None.  No alias of these
\* files starts with 're:', and the last loop compares what the second
\* loop compared.
match_channel(name, alias_map) ==
    IF KeyIndex(alias_map, name) # 0
    THEN <<alias_map[KeyIndex(alias_map, name)][2]>>
    ELSE FirstSimpleMatch(alias_map, 1, name)

RECURSIVE str_replace(_, _, _)
\* s.replace(old, new), old not empty
str_replace(s, old, new) ==
    IF Len(s) < Len(old)
    THEN s
    ELSE IF SubSeq(s, 1, Len(old)) = old
         THEN new \o str_replace(SubSeq(s, Len(old) + 1, Len(s)), old, new)
         ELSE <<s[1]>> \o str_replace(Tail(s), old, new)

\* the #EXTINF line of a matched channel: the name replaced wherever it
\* occurs in the line, then tvg-name set, or added next to tvg-logo or
\* group-title when the line has one of them
updated_line(line, matched_main) ==
    LET replaced ==
            [line EXCEPT
                !.tvg_name = str_replace(@, line.name, matched_main),
                !.tvg_logo = str_replace(@, line.name, matched_main),
                !.group_title = str_replace(@, line.name, matched_main),
                !.name = str_replace(@, line.name, matched_main)]
    IN  IF replaced.tvg_name # <<>>
        THEN [replaced EXCEPT !.tvg_name = matched_main]
        ELSE IF replaced.tvg_logo # <<>> \/ replaced.group_title # <<>>
             THEN [replaced EXCEPT !.tvg_name = matched_main]
             ELSE replaced

\* updated_lines after the loop over the lines of m3u_file
updated_lines(lines, alias_map) ==
    [i \in 1..Len(lines) |->
        IF lines[i].extinf /\ match_channel(lines[i].name, alias_map) # <<>>
        THEN updated_line(lines[i], match_channel(lines[i].name, alias_map)[1])
        ELSE lines[i]]

\* the other playlist of the directory, when there is one
OldPlaylist == <<OtherLine(<<"u">>)>>

UpdateFileSystems ==
    { [f \in Files |-> IF f = "a.m3u" THEN a ELSE b] :
        a \in {NoFile, BinaryFile} \cup {TextFile(p) : p \in UpdatePlaylists},
        b \in {NoFile, TextFile(OldPlaylist)} }

UpdateInputs ==
    [m3u_file : Paths \ {"nodir/b.m3u"},
     output_file : Paths,
     alias_file : {NoFile, BinaryFile} \cup {TextFile(f) : f \in AliasFiles},
     fs : UpdateFileSystems]

updateUnchanged == <<input_file, max_threads, future, consumed, get_log,
                     written, m3u_urls, accessible, pending, channel_groups,
                     final_channels>>

\* main: the two files must exist and the alias map must not be empty
UpdateMain ==
    /\ pc = "start"
    /\ LET alias_map ==
               IF input_file.alias_file.decodable
               THEN load_alias_map(input_file.alias_file.lines, 1, <<>>)
               ELSE <<>>
       IN  IF \/ ~input_file.alias_file.exists
              \/ ~path_exists(channels, input_file.m3u_file)
              \/ alias_map = <<>>
           THEN /\ pc' = "exited"
                /\ UNCHANGED all_channels
           ELSE /\ pc' = "called"
                /\ all_channels' = alias_map
    /\ UNCHANGED <<channels, header_lines, output_file, updateUnchanged>>

\* update_m3u_channels, the loop over the lines of m3u_file
UpdateRead ==
    /\ pc = "called"
    /\ LET file == channels[FileOf(input_file.m3u_file)]
       IN  IF file.exists /\ file.decodable
           THEN /\ header_lines' = updated_lines(file.lines, all_channels)
                /\ pc' = "read"
                /\ UNCHANGED output_file
           ELSE /\ pc' = "returned"
                /\ output_file' = <<FALSE>>
                /\ UNCHANGED header_lines
    /\ UNCHANGED <<channels, all_channels, updateUnchanged>>

\* update_m3u_channels, the writing of output_file
UpdateWrite ==
    /\ pc = "read"
    /\ IF FileOf(input_file.output_file) \in Files
       THEN /\ channels' = [channels EXCEPT
                               ![FileOf(input_file.output_file)] =
                                   TextFile(header_lines)]
            /\ pc' = "written"
            /\ UNCHANGED output_file
       ELSE /\ pc' = "returned"
            /\ output_file' = <<FALSE>>
            /\ UNCHANGED channels
    /\ UNCHANGED <<header_lines, all_channels, updateUnchanged>>

\* update_m3u_channels, os.remove(m3u_file), which the system may refuse
UpdateRemove ==
    /\ pc = "written"
    /\ IF path_exists(channels, input_file.m3u_file)
       THEN \/ /\ channels' = [channels EXCEPT
                                  ![FileOf(input_file.m3u_file)] = NoFile]
               /\ pc' = "removed"
               /\ UNCHANGED output_file
            \/ /\ pc' = "returned"
               /\ output_file' = <<FALSE>>
               /\ UNCHANGED channels
       ELSE /\ pc' = "removed"
            /\ UNCHANGED <<channels, output_file>>
    /\ UNCHANGED <<header_lines, all_channels, updateUnchanged>>

\* update_m3u_channels, os.rename(output_file, m3u_file), which the system
\* may refuse, and the return
UpdateRename ==
    /\ pc = "removed"
    /\ IF path_exists(channels, input_file.output_file)
       THEN \/ /\ channels' = [channels EXCEPT
                                  ![FileOf(input_file.m3u_file)] =
                                      channels[FileOf(input_file.output_file)],
                                  ![FileOf(input_file.output_file)] = NoFile]
               /\ output_file' = <<TRUE>>
            \/ /\ output_file' = <<FALSE>>
               /\ UNCHANGED channels
       ELSE /\ output_file' = <<TRUE>>
            /\ UNCHANGED channels
    /\ pc' = "returned"
    /\ UNCHANGED <<header_lines, all_channels, updateUnchanged>>

InitUpdate ==
    /\ input_file \in UpdateInputs
    /\ channels = input_file.fs
    /\ max_threads = 1
    /\ pc = "start"
    /\ header_lines = <<>>
    /\ future = <<>>
    /\ consumed = {}
    /\ get_log = {}
    /\ output_file = <<>>
    /\ written = FALSE
    /\ m3u_urls = <<>>
    /\ all_channels = <<>>
    /\ accessible = <<>>
    /\ pending = {}
    /\ channel_groups = <<>>
    /\ final_channels = <<>>

NextUpdate ==
    \/ UpdateMain
    \/ UpdateRead
    \/ UpdateWrite
    \/ UpdateRemove
    \/ UpdateRename

SpecUpdate == InitUpdate /\ [][NextUpdate]_vars

\* the file m3u_file named when main started
OriginalFile == input_file.fs[FileOf(input_file.m3u_file)]

\* C30: when update_m3u_channels has returned True, m3u_file exists and
\* holds the updated lines of the original playlist, whatever the two
\* paths are; when it has returned False, m3u_file is as it was.
C30_UpdateKeepsPlaylist ==
    pc = "returned"
        => /\ output_file = <<TRUE>>
                 => /\ path_exists(channels, input_file.m3u_file)
                    /\ channels[FileOf(input_file.m3u_file)] =
                           TextFile(updated_lines(OriginalFile.lines,
                                                  all_channels))
           /\ output_file = <<FALSE>>
                 => channels[FileOf(input_file.m3u_file)] = OriginalFile

\* with two different files and a rename that succeeds, m3u_file holds the
\* updated playlist
UpdateKeepsPlaylistOfDistinctFiles ==
    (/\ pc = "returned"
     /\ output_file = <<TRUE>>
     /\ FileOf(input_file.m3u_file) # FileOf(input_file.output_file))
        => /\ channels[FileOf(input_file.m3u_file)] =
                  TextFile(updated_lines(OriginalFile.lines, all_channels))
           /\ ~path_exists(channels, input_file.output_file)

\* with one file under two paths, True is returned and the file is gone
UpdateLosesPlaylistOfOneFile ==
    (/\ pc = "returned"
     /\ output_file = <<TRUE>>
     /\ FileOf(input_file.m3u_file) = FileOf(input_file.output_file))
        => ~path_exists(channels, input_file.m3u_file)

\* a matched channel takes the main name of its alias, in the name and in
\* tvg-name
UpdateRenamesMatched ==
    (pc = "read" /\ all_channels = <<<<<<"C", "1">>, <<"C", "1">>>>>>)
        => \A i \in 1..Len(header_lines) :
              (header_lines[i].extinf
                  /\ OriginalFile.lines[i].name = <<"c", "1">>)
                 => /\ header_lines[i].name = <<"C", "1">>
                    /\ header_lines[i].tvg_name = <<"C", "1">>

====
